---- MODULE Spec2Model ----
(***************************************************************************)
(* The daily cost report handler of src/funcs/cost-report.lambda.ts: the  *)
(* reporting period, the Cost Explorer queries (total, and grouped by     *)
(* service or by linked account with NextPageToken pagination), and the   *)
(* durable step sequence that ends with the two Slack posts.              *)
(*                                                                         *)
(* JavaScript values: a string-typed value that is undefined is Unset; an *)
(* object-typed value that is undefined is undefined; an array that may   *)
(* be undefined is Array(items) or undefined.  A template literal is the  *)
(* concatenation \o of its pieces.                                        *)
(***************************************************************************)
EXTENDS Integers, Sequences, FiniteSets, TLC

VARIABLES
    slackSecretName,   \* process.env.SLACK_SECRET_NAME
    eventType,         \* event.type
    now,               \* the local calendar date Date.now() falls on
    pc,                \* the run's state: the last step recorded complete, or the result
    error,             \* the message of the Error the run failed with
    slackSecretValue,  \* result of step fetch-slack-secret
    dateRange,         \* result of step compute-date-range
    totalBilling,      \* result of step fetch-total-billing
    detailBillings,    \* serviceBillings or accountBillings of step fetch-detail-billings
    fields,            \* result of step fetch-detail-billings
    frames,            \* billings of the pages whose handler awaits the recursive call
    nextPageToken,     \* the nextPageToken argument of the next recursive call
    rootResult,        \* result of the root chat.postMessage, while the step goes on
    invocation,        \* number of the handler invocation that is executing
    calls,             \* every request sent so far to the secret store, to Cost Explorer
                       \* and to Slack, Slack's with its answer
    totalData,         \* what Cost Explorer answers to the last query of
                       \* fetch-total-billing, the answer on its way included
    pages,             \* what Cost Explorer answers to each query of the execution of
                       \* fetch-detail-billings that is going on or was the last, the
                       \* answer on its way included
    logs,              \* the records written with context.logger and console.log by the
                       \* step being executed or, between steps, by what ran last
    clock,             \* minutes elapsed since 00:00 UTC of the day the schedule was created
    triggered,         \* the clock readings at which the schedule invoked the function
    costGroupType,     \* props.costGroupType of the DailyCostReporter construct
    other,             \* a second run of handler going on at the same time: its
                       \* event.type, its position in the steps and inside the step,
                       \* the results it holds and the requests it has sent
    at,                \* where the step being executed is: READY to start, its request
                       \* SENT, or its function DONE and the step not yet recorded
    answer             \* while at = SENT the answer on its way to the handler; while
                       \* at = DONE what the function of the step has settled with

vars == <<slackSecretName, eventType, now, pc, error, slackSecretValue, dateRange,
          totalBilling, detailBillings, fields, frames, nextPageToken, rootResult, invocation, calls,
          totalData, pages, logs, clock, triggered, costGroupType, other, at, answer>>

-----------------------------------------------------------------------------
(* Bounds *)

\* The Cost Explorer page chain of one grouped query has at most MaxPages pages.
MaxPages == 2

\* The durable runtime invokes the handler at most MaxInvocations times for one run.
MaxInvocations == 2

\* Years of the calendar dates the reporting period is computed for.
Years == {1999, 2000, 2023, 2024, 2100}

\* The schedule is followed for MaxDays days.
MaxDays == 2

-----------------------------------------------------------------------------
(* JavaScript values *)

Unset == "<undefined>"
undefined == [undefined |-> TRUE]

\* An array held where undefined can be held too
Array(items) == [items |-> items]

\* !v for a string-typed v
Falsy(v) == v \in {Unset, ""}

\* ${v} for a string-typed v
Interpolate(v) == IF v = Unset THEN "undefined" ELSE v

EventInputType == [ACCOUNTS |-> "accounts", SERVICES |-> "services"]

\* Object.values(EventInputType)
EventInputTypeValues == {EventInputType.ACCOUNTS, EventInputType.SERVICES}

-----------------------------------------------------------------------------
(* Dates *)

IsLeapYear(y) == (y % 4 = 0 /\ y % 100 # 0) \/ y % 400 = 0

\* month is the 0-based month index of getMonth()
DaysInMonth(y, month) ==
    IF month = 1 THEN (IF IsLeapYear(y) THEN 29 ELSE 28)
    ELSE IF month \in {3, 5, 8, 10} THEN 30
    ELSE 31

RECURSIVE NewDate(_, _, _)
\* new Date(year, monthIndex, day): out-of-range month and day roll over
NewDate(y, month, day) ==
    IF month < 0 THEN NewDate(y - 1, month + 12, day)
    ELSE IF month > 11 THEN NewDate(y + 1, month - 12, day)
    ELSE IF day < 1 THEN
        LET py == IF month = 0 THEN y - 1 ELSE y
            pm == IF month = 0 THEN 11 ELSE month - 1
        IN  NewDate(py, pm, day + DaysInMonth(py, pm))
    ELSE IF day > DaysInMonth(y, month) THEN
        NewDate(y, month + 1, day - DaysInMonth(y, month))
    ELSE [year |-> y, month |-> month, date |-> day]

\* ('00' + n).slice(-2) for 0 <= n <= 99
Slice2(n) == IF n < 10 THEN "0" \o ToString(n) ELSE ToString(n)

dateFormatString(date) ==
    ToString(date.year) \o "-" \o Slice2(date.month + 1) \o "-" \o Slice2(date.date)

\* getDateRange without the branch for the 1st of the month
getDateRangeNoFirstDay(d) ==
    [start |-> dateFormatString(NewDate(d.year, d.month, 1)),
     end   |-> dateFormatString(NewDate(d.year, d.month, d.date - 1))]

\* getDateRange ending on now.getDate() instead of now.getDate() - 1
getDateRangeThroughToday(d) ==
    IF d.date = 1
    THEN [start |-> dateFormatString(NewDate(d.year, d.month - 1, 1)),
          end   |-> dateFormatString(NewDate(d.year, d.month, 0))]
    ELSE [start |-> dateFormatString(NewDate(d.year, d.month, 1)),
          end   |-> dateFormatString(NewDate(d.year, d.month, d.date))]

\* getDateRange starting, on a later day, on the 1st of the month before
getDateRangeFromLastMonth(d) ==
    IF d.date = 1
    THEN [start |-> dateFormatString(NewDate(d.year, d.month - 1, 1)),
          end   |-> dateFormatString(NewDate(d.year, d.month, 0))]
    ELSE [start |-> dateFormatString(NewDate(d.year, d.month - 1, 1)),
          end   |-> dateFormatString(NewDate(d.year, d.month, d.date - 1))]

getDateRange(d) ==
    IF d.date = 1
    THEN [start |-> dateFormatString(NewDate(d.year, d.month - 1, 1)),
          end   |-> dateFormatString(NewDate(d.year, d.month, 0))]
    ELSE [start |-> dateFormatString(NewDate(d.year, d.month, 1)),
          end   |-> dateFormatString(NewDate(d.year, d.month, d.date - 1))]

\* The calendar date Date.now() falls on one day after it fell on d
Tomorrow(d) == NewDate(d.year, d.month, d.date + 1)

\* Every calendar date of Years
AllNows ==
    {d \in [year : Years, month : 0..11, date : 1..31] :
        d.date <= DaysInMonth(d.year, d.month)}

\* The dates a whole run is started on, the two clocks of the test suite: a day inside
\* the month and the first day of a month
RunNows ==
    {[year |-> 2023, month |-> 1, date |-> 23],
     [year |-> 2023, month |-> 1, date |-> 1]}

\* The dates Date.now() can read in a later invocation of the run: the execution
\* lasts two hours at most, so it passes midnight once at most
LaterNows(d) == IF d \in RunNows THEN {d, Tomorrow(d)} ELSE {d}

-----------------------------------------------------------------------------
(* Cost Explorer: what GetCostAndUsage can answer *)

\* client.send rejects
Rejected == [rejected |-> TRUE]

\* No request is awaited and no function of a step has settled
NoAnswer == [settled |-> FALSE]

\* The output of a chat.postMessage call that has not been answered
Pending == [pending |-> TRUE]

\* The dimension values Cost Explorer reports, in the order it reports them
ServiceKeys == <<"Tax", "AWS CloudTrail">>
AccountKeys == <<"222222222222", "111111111111">>

AmountOf(key) ==
    CASE key = "AWS CloudTrail" -> "0"
      [] key = "Tax"            -> "1.39"
      [] key = "111111111111"   -> "0.012"
      [] OTHER                  -> "1.23456"

\* One row of ResultsByTime[0].Groups
Group(key) ==
    [Keys |-> <<key>>,
     Metrics |-> [AmortizedCost |-> [Amount |-> AmountOf(key), Unit |-> "USD"]]]

\* The Groups of one result bucket: no row, one row, or a row per dimension value
GroupLists(keys) ==
    {<<>>, <<Group(keys[2])>>, <<Group(keys[1]), Group(keys[2])>>}

\* DimensionValueAttributes of a LINKED_ACCOUNT response, when it has the property
AccountAttributes ==
    {<<[Value |-> "111111111111", Attributes |-> [description |-> "dev"]]>>,
     <<[Value |-> "111111111111", Attributes |-> [description |-> "dev"]],
       [Value |-> "222222222222", Attributes |-> undefined]>>}

\* The Groups of the LINKED_ACCOUNT responses that have no DimensionValueAttributes
AccountGroupsAlone == {<<>>, <<Group(AccountKeys[2])>>}

\* The Groups and the DimensionValueAttributes of the LINKED_ACCOUNT responses that
\* have the property: the attributes describe every row, or only the rows of one account
AccountGroupsDescribed ==
    {d \in GroupLists(AccountKeys) \X AccountAttributes :
        d[1] # <<>> /\ Len(d[2]) <= Len(d[1])}

Bucket(groups) ==
    [Groups |-> groups,
     Total |-> [AmortizedCost |-> [Amount |-> "1.23456", Unit |-> "USD"]]]

\* A response without DimensionValueAttributes
Data(buckets, token) == [ResultsByTime |-> buckets, NextPageToken |-> token]

DataWithAttributes(buckets, token, attributes) ==
    [ResultsByTime |-> buckets, NextPageToken |-> token,
     DimensionValueAttributes |-> attributes]

\* The continuation token the response for page number page carries
TokenAfter(page) == "page-" \o ToString(page + 1)

\* Responses to the query with no GroupBy
TotalResponses ==
    {Rejected,
     Data(<<>>, Unset),
     Data(<<Bucket(<<>>)>>, Unset),
     Data(<<Bucket(<<>>), Bucket(<<>>)>>, Unset)}

\* The tokens the response for page number page can carry; the chain ends by MaxPages
PageTokens(page) == {Unset} \cup (IF page < MaxPages THEN {TokenAfter(page)} ELSE {})

\* Responses to page number page of a grouped query: alone are the Groups of the
\* responses without DimensionValueAttributes, described the Groups and the
\* DimensionValueAttributes of the responses with the property
GroupedResponses(alone, described, page) ==
    {Rejected,
     Data(<<>>, Unset),
     Data(<<Bucket(<<>>), Bucket(<<>>)>>, Unset)}
    \cup {Data(<<Bucket(g)>>, t) : g \in alone, t \in PageTokens(page)}
    \cup {DataWithAttributes(<<Bucket(d[1])>>, t, d[2]) :
            d \in described, t \in PageTokens(page)}

-----------------------------------------------------------------------------
(* Cost Explorer: the three queries *)

TimePeriod(range) == [Start |-> range.start, End |-> range.end]

TotalBillingInput(range) ==
    [TimePeriod |-> TimePeriod(range), Granularity |-> "MONTHLY",
     Metrics |-> <<"AMORTIZED_COST">>]

\* ServiceBillingInput leaving the token out of the request
ServiceBillingInputWithoutToken(range, token) ==
    [NextPageToken |-> Unset, TimePeriod |-> TimePeriod(range),
     Granularity |-> "MONTHLY", Metrics |-> <<"AMORTIZED_COST">>,
     GroupBy |-> <<[Type |-> "DIMENSION", Key |-> "SERVICE"]>>]

ServiceBillingInput(range, token) ==
    [NextPageToken |-> token, TimePeriod |-> TimePeriod(range),
     Granularity |-> "MONTHLY", Metrics |-> <<"AMORTIZED_COST">>,
     GroupBy |-> <<[Type |-> "DIMENSION", Key |-> "SERVICE"]>>]

AccountBillingsInput(range, token) ==
    [NextPageToken |-> token, TimePeriod |-> TimePeriod(range),
     Granularity |-> "MONTHLY", Metrics |-> <<"AMORTIZED_COST">>,
     GroupBy |-> <<[Type |-> "DIMENSION", Key |-> "LINKED_ACCOUNT"]>>]

\* data?.ResultsByTime?.length === 1
OneResult(data) == data # Rejected /\ Len(data.ResultsByTime) = 1

\* TotalBillingOf taking the first bucket of however many there are
TotalBillingOfFirstBucket(data) ==
    IF data # Rejected /\ Len(data.ResultsByTime) >= 1
    THEN LET cost == data.ResultsByTime[1].Total.AmortizedCost
         IN  [unit |-> cost.Unit, amount |-> cost.Amount]
    ELSE undefined

\* getTotalBilling: the .then and .catch callbacks
TotalBillingOf(data) ==
    IF OneResult(data)
    THEN LET cost == data.ResultsByTime[1].Total.AmortizedCost
         IN  [unit |-> cost.Unit, amount |-> cost.Amount]
    ELSE undefined

\* getServiceBilling: the row pushed for one group
ServiceBillingOfItem(item) ==
    [service |-> item.Keys[1],
     unit    |-> item.Metrics.AmortizedCost.Unit,
     amount  |-> item.Metrics.AmortizedCost.Amount]

RECURSIVE ServiceBillingsOfGroups(_)
ServiceBillingsOfGroups(groups) ==
    IF groups = <<>> THEN <<>>
    ELSE <<ServiceBillingOfItem(Head(groups))>> \o ServiceBillingsOfGroups(Tail(groups))

\* getServiceBilling: the for loop over Groups
ServiceBillingsOf(data) == ServiceBillingsOfGroups(data.ResultsByTime[1].Groups)

\* attr.Attributes?.description ?? ''
DescriptionOf(attr) ==
    IF attr.Attributes = undefined THEN ""
    ELSE IF attr.Attributes.description = Unset THEN ""
    ELSE attr.Attributes.description

RECURSIVE AccountBillingsOfItem(_, _)
\* getAccountBillings: the inner loop, the rows pushed for one group
AccountBillingsOfItem(item, attributes) ==
    IF attributes = <<>> THEN <<>>
    ELSE LET attr == Head(attributes)
         IN  (IF item.Keys[1] = attr.Value
              THEN <<[account |-> attr.Value \o " (" \o DescriptionOf(attr) \o ")",
                      unit    |-> item.Metrics.AmortizedCost.Unit,
                      amount  |-> item.Metrics.AmortizedCost.Amount]>>
              ELSE <<>>)
             \o AccountBillingsOfItem(item, Tail(attributes))

RECURSIVE AccountBillingsOfGroups(_, _)
AccountBillingsOfGroups(groups, attributes) ==
    IF groups = <<>> THEN <<>>
    ELSE AccountBillingsOfItem(Head(groups), attributes)
            \o AccountBillingsOfGroups(Tail(groups), attributes)

\* getAccountBillings: the nested for loops over Groups and DimensionValueAttributes
AccountBillingsOf(data) ==
    LET groups == data.ResultsByTime[1].Groups
        dimensionValueAttributes ==
            IF "DimensionValueAttributes" \in DOMAIN data
            THEN data.DimensionValueAttributes
            ELSE <<>>
    IN  AccountBillingsOfGroups(groups, dimensionValueAttributes)

\* What a page's handler returns once its recursive call has returned nextBillings
ReturnBillings(billings, nextBillings) ==
    IF nextBillings # undefined
    THEN Array(billings \o nextBillings.items)
    ELSE Array(billings)

RECURSIVE Unwind(_, _)
\* The value the outermost call returns when the innermost one returns result
Unwind(pending, result) ==
    IF pending = <<>> THEN result
    ELSE Unwind(SubSeq(pending, 1, Len(pending) - 1),
                ReturnBillings(pending[Len(pending)], result))

RECURSIVE AccountFieldsOf(_)
AccountFieldsOf(accountBillings) ==
    IF accountBillings = <<>> THEN <<>>
    ELSE LET value == Head(accountBillings)
         IN  <<[title |-> value.account, value |-> value.amount \o " " \o value.unit]>>
             \o AccountFieldsOf(Tail(accountBillings))

\* accountBillings?.map(...) of step fetch-detail-billings
AccountFields(accountBillings) ==
    IF accountBillings = undefined THEN undefined
    ELSE Array(AccountFieldsOf(accountBillings.items))

RECURSIVE ServiceFieldsOf(_)
ServiceFieldsOf(serviceBillings) ==
    IF serviceBillings = <<>> THEN <<>>
    ELSE LET value == Head(serviceBillings)
         IN  <<[title |-> value.service, value |-> value.amount \o " " \o value.unit]>>
             \o ServiceFieldsOf(Tail(serviceBillings))

\* serviceBillings?.map(...) of step fetch-detail-billings
ServiceFields(serviceBillings) ==
    IF serviceBillings = undefined THEN undefined
    ELSE Array(ServiceFieldsOf(serviceBillings.items))

-----------------------------------------------------------------------------
(* The trigger, the environment, the secret and Slack *)

SecretNames == {Unset, "", "example/slack/webhook"}

EventTypes == {Unset, "", "accounts", "services", "Accounts", "Miss"}

\* What secretFetcher.getSecretValue can answer
SecretResponses ==
    {Rejected, undefined}
    \cup [token : {Unset, "", "xxxx-xxxxxxxxx-xxxx"},
          channel : {Unset, "", "example-channel"}]

\* The ts Slack gives the n-th message posted to the channel
MessageTs(n) == "1700000000.00000" \o ToString(n)

SlackCalls == SelectSeq(calls, LAMBDA c : c.api = "slack")

\* No second run is going on
NoOtherRun ==
    [eventType |-> Unset, pc |-> "ABSENT", at |-> "READY", answer |-> NoAnswer,
     error |-> Unset, slackSecretValue |-> undefined, dateRange |-> undefined,
     totalBilling |-> undefined, frames |-> <<>>, fields |-> undefined,
     rootResult |-> undefined, calls |-> <<>>]

\* The chat.postMessage calls the second run has made
OtherSlackCalls == SelectSeq(other.calls, LAMBDA c : c.api = "slack")

\* The number of messages Slack has accepted or refused so far, whoever sent them
Posted == Len(SlackCalls) + Len(OtherSlackCalls)

\* What chat.postMessage can answer
PostResponses ==
    {Rejected,
     [ok |-> FALSE, ts |-> Unset],
     [ok |-> TRUE, ts |-> MessageTs(Posted + 1)]}

\* The message a rejected external call throws
RejectedMessage(api) == api \o " call rejected"

\* ValidationError without the check against Object.values(EventInputType)
ValidationErrorNoIncludes(name, type) ==
    IF Falsy(name) THEN "missing environment variable SLACK_SECRET_NAME."
    ELSE IF Falsy(type) THEN "missing input variable type"
    ELSE Unset

\* ValidationError with slackSecretName === undefined for !slackSecretName
ValidationErrorUndefinedOnly(name, type) ==
    IF name = Unset THEN "missing environment variable SLACK_SECRET_NAME."
    ELSE IF Falsy(type) THEN "missing input variable type"
    ELSE IF type \notin EventInputTypeValues
    THEN "invalid input variable Type. Valid values are accounts or services."
    ELSE Unset

\* The checks of handler before its first step; Unset when none throws
ValidationError(name, type) ==
    IF Falsy(name) THEN "missing environment variable SLACK_SECRET_NAME."
    ELSE IF Falsy(type) THEN "missing input variable type"
    ELSE IF type \notin EventInputTypeValues
    THEN "invalid input variable Type. Valid values are accounts or services."
    ELSE Unset

\* SecretIncomplete without the check of the token
SecretIncompleteChannelOnly(secret) ==
    IF secret = undefined THEN TRUE ELSE Falsy(secret.channel)

\* SecretIncomplete without the check of the channel
SecretIncompleteTokenOnly(secret) ==
    IF secret = undefined THEN TRUE ELSE Falsy(secret.token)

\* !slackSecretValue?.token || !slackSecretValue?.channel
SecretIncomplete(secret) ==
    IF secret = undefined THEN TRUE
    ELSE IF Falsy(secret.token) THEN TRUE
    ELSE Falsy(secret.channel)

SecretError == "Slack secret must contain token and channel."

\* The first chat.postMessage argument of step post-slack-messages
RootMessage(channel, range, total) ==
    [channel |-> channel,
     icon_emoji |-> ":money-with-wings:",
     text |-> "AWS Cost Reports (" \o range.start \o " - " \o range.end \o ")",
     attachments |->
        <<[title |-> ":moneybag: Total",
           text |-> Interpolate(IF total = undefined THEN Unset ELSE total.amount)
                    \o " " \o
                    Interpolate(IF total = undefined THEN Unset ELSE total.unit),
           color |-> "#ff8c00"]>>]

RECURSIVE AttachmentFieldsOf(_)
AttachmentFieldsOf(detail) ==
    IF detail = <<>> THEN <<>>
    ELSE LET filed == Head(detail)
         IN  <<[title |-> ":aws: " \o filed.title, value |-> filed.value,
                short |-> FALSE]>>
             \o AttachmentFieldsOf(Tail(detail))

\* ThreadMessage with the first field left out
ThreadMessageSkippingFirst(channel, ts, detail) ==
    [channel |-> channel,
     thread_ts |-> ts,
     attachments |->
        <<[color |-> "#ffd700",
           fields |-> IF detail = undefined THEN undefined
                      ELSE IF detail.items = <<>> THEN Array(<<>>)
                      ELSE Array(AttachmentFieldsOf(Tail(detail.items)))]>>]

\* The second chat.postMessage argument of step post-slack-messages
ThreadMessage(channel, ts, detail) ==
    [channel |-> channel,
     thread_ts |-> ts,
     attachments |->
        <<[color |-> "#ffd700",
           fields |-> IF detail = undefined THEN undefined
                      ELSE Array(AttachmentFieldsOf(detail.items))]>>]

Call(api, input) == [api |-> api, input |-> input]

-----------------------------------------------------------------------------
(* Log records: the message, and the value logged with it or stringified into it *)

Log(message, data) == [message |-> message, data |-> data]

\* context.lambdaContext
LambdaContext == [functionName |-> "cost-report"]

\* The two records the handler writes when it is entered
EntryLogs(type) ==
    <<Log("Event received", [event |-> [type |-> type]]),
      Log("Lambda context", [context |-> LambdaContext])>>

\* The two records of a .catch callback
ErrorLogs(rejection) ==
    <<Log("Error caught...", [none |-> TRUE]), Log("Error:", rejection)>>

\* The record getTotalBilling writes before it sends its query
TotalBillingInputLog(range) ==
    Log("TotalBilling:Command:Input:", TotalBillingInput(range))

\* The records the callbacks of getTotalBilling write when the query was answered data
TotalBillingOutputLogs(data) ==
    IF OneResult(data)
    THEN <<Log("TotalBilling:Command:Output(Shaped):", TotalBillingOf(data))>>
    ELSE IF data = Rejected THEN ErrorLogs(data) ELSE <<>>

\* The record one call of getServiceBilling writes before it sends its query
ServiceBillingInputLog(range, token) ==
    Log("ServiceBillings:Command:Input:", ServiceBillingInput(range, token))

\* The records the callbacks of one call of getServiceBilling write, before the
\* recursive call
ServiceBillingOutputLogs(data) ==
    IF OneResult(data)
    THEN <<Log("ServiceBillings:Command:Output(Shaped):", Array(ServiceBillingsOf(data)))>>
    ELSE IF data = Rejected THEN ErrorLogs(data) ELSE <<>>

\* The record one call of getAccountBillings writes before it sends its query
AccountBillingsInputLog(range, token) ==
    Log("AccountBillings:Command:Input:", AccountBillingsInput(range, token))

\* The records the callbacks of one call of getAccountBillings write, before the
\* recursive call
AccountBillingsOutputLogs(data) ==
    IF OneResult(data)
    THEN <<Log("AccountBillings:Command:Output(Shaped):", Array(AccountBillingsOf(data)))>>
    ELSE IF data = Rejected THEN ErrorLogs(data) ELSE <<>>

-----------------------------------------------------------------------------
(* The schedule of the DailyCostReporter construct *)

\* scheduler.ScheduleExpression.cron({minute, hour, timeZone}): the fields not given
\* are '*', weekDay is '?'
ScheduleExpression ==
    [minute |-> "9", hour |-> "9", day |-> "*", month |-> "*", weekDay |-> "?",
     year |-> "*", timeZone |-> "Etc/UTC"]

\* enum CostGroupType
CostGroupType == [ACCOUNTS |-> "ACCOUNTS", SERVICES |-> "SERVICES"]

CostGroupTypeValues == {CostGroupType.ACCOUNTS, CostGroupType.SERVICES}

\* TargetInput passing the name of the enum member on
TargetInputOfMemberName(groupType) == [type |-> groupType]

\* ScheduleTargetInput.fromObject({type: ...}): the payload the schedule invokes the
\* function with
TargetInput(groupType) ==
    [type |-> CASE groupType = CostGroupType.ACCOUNTS -> "accounts"
                [] groupType = CostGroupType.SERVICES -> "services"
                [] OTHER -> Unset]

\* The values of props.costGroupType whose payload carries type
CostGroupTypesSending(type) == {g \in CostGroupTypeValues : TargetInput(g).type = type}

\* A cron field that is a number or '*' matches the value
CronFieldMatches(field, value) == IF field = "*" THEN TRUE ELSE field = ToString(value)

\* The expression fires at minute m of the UTC day, whatever the day
CronFires(expression, m) ==
    /\ expression.timeZone = "Etc/UTC"
    /\ expression.day = "*" /\ expression.month = "*" /\ expression.year = "*"
    /\ CronFieldMatches(expression.hour, m \div 60)
    /\ CronFieldMatches(expression.minute, m % 60)

\* The clock reading of the invocation a run is followed from
FirstTrigger == CHOOSE m \in 0..1439 : CronFires(ScheduleExpression, m)

-----------------------------------------------------------------------------
(* The handler.  A step of the durable execution that sends a request goes through
   three positions: the request is sent and its answer is on its way (SENT), the
   answer is handled and the function of the step has settled (DONE), the step is
   recorded complete (READY for the next step).  The invocation can be interrupted
   at each of them. *)

Init ==
    /\ slackSecretName \in SecretNames
    /\ eventType \in EventTypes
    /\ now \in RunNows
    /\ pc = "VALIDATING"
    /\ error = Unset
    /\ slackSecretValue = undefined
    /\ dateRange = undefined
    /\ totalBilling = undefined
    /\ detailBillings = undefined
    /\ fields = undefined
    /\ frames = <<>>
    /\ nextPageToken = Unset
    /\ rootResult = undefined
    /\ invocation = 1
    /\ calls = <<>>
    /\ totalData = undefined
    /\ pages = <<>>
    /\ logs = EntryLogs(eventType)
    /\ clock = FirstTrigger
    /\ triggered = <<FirstTrigger>>
    /\ costGroupType \in (IF eventType \in EventInputTypeValues
                          THEN CostGroupTypesSending(eventType)
                          ELSE CostGroupTypeValues)
    /\ other = NoOtherRun
    /\ at = "READY"
    /\ answer = NoAnswer

\* The run ends FAILED with the thrown message
Throw(message) ==
    /\ pc' = "FAILED"
    /\ error' = message

\* The last request of calls, answered
Answered(output) == [calls EXCEPT ![Len(calls)].output = output]

\* One of the three checks before the first step throws
ValidationFails ==
    /\ pc = "VALIDATING"
    /\ at = "READY"
    /\ ValidationError(slackSecretName, eventType) # Unset
    /\ Throw(ValidationError(slackSecretName, eventType))
    /\ logs' = <<>>
    /\ UNCHANGED <<slackSecretName, eventType, now, slackSecretValue, dateRange, totalBilling,
                   detailBillings, fields, frames, nextPageToken, rootResult, invocation, calls,
                   totalData, pages, clock, triggered, costGroupType, other, at, answer>>

\* Step fetch-slack-secret: secretFetcher.getSecretValue is called
FetchSlackSecret ==
    /\ pc = "VALIDATING"
    /\ at = "READY"
    /\ ValidationError(slackSecretName, eventType) = Unset
    /\ answer' \in SecretResponses
    /\ calls' = Append(calls, Call("secrets", slackSecretName))
    /\ at' = "SENT"
    /\ logs' = <<>>
    /\ UNCHANGED <<slackSecretName, eventType, now, pc, error, slackSecretValue, dateRange,
                   totalBilling, detailBillings, fields, frames, nextPageToken, rootResult,
                   invocation, totalData, pages, clock, triggered, costGroupType, other>>

\* SlackSecretFetched writing the resolved secret to the log
SlackSecretFetchedLogged ==
    /\ pc = "VALIDATING"
    /\ at = "SENT"
    /\ at' = "DONE"
    /\ logs' = <<Log("SlackSecret fetched", [slackSecretValue |-> answer])>>
    /\ UNCHANGED <<slackSecretName, eventType, now, pc, error, slackSecretValue, dateRange,
                   totalBilling, detailBillings, fields, frames, nextPageToken, rootResult,
                   invocation, calls, totalData, pages, clock, triggered, costGroupType, other,
                   answer>>

\* Step fetch-slack-secret: the lookup resolves or rejects, and so does the function
\* of the step
SlackSecretFetched ==
    /\ pc = "VALIDATING"
    /\ at = "SENT"
    /\ at' = "DONE"
    /\ UNCHANGED <<slackSecretName, eventType, now, pc, error, slackSecretValue, dateRange,
                   totalBilling, detailBillings, fields, frames, nextPageToken, rootResult,
                   invocation, calls, totalData, pages, logs, clock, triggered, costGroupType,
                   other, answer>>

\* Step fetch-slack-secret is recorded: slackSecretValue is its result, or the run
\* fails with its rejection
SlackSecretRecorded ==
    /\ pc = "VALIDATING"
    /\ at = "DONE"
    /\ IF answer = Rejected
       THEN /\ Throw(RejectedMessage("secrets"))
            /\ UNCHANGED slackSecretValue
       ELSE /\ slackSecretValue' = answer
            /\ pc' = "SECRET_RESOLVED"
            /\ UNCHANGED error
    /\ at' = "READY"
    /\ answer' = NoAnswer
    /\ UNCHANGED <<slackSecretName, eventType, now, dateRange, totalBilling, detailBillings,
                   fields, frames, nextPageToken, rootResult, invocation, calls, totalData,
                   pages, logs, clock, triggered, costGroupType, other>>

\* The check of the resolved secret throws
SlackSecretIncomplete ==
    /\ pc = "SECRET_RESOLVED"
    /\ at = "READY"
    /\ SecretIncomplete(slackSecretValue)
    /\ Throw(SecretError)
    /\ logs' = <<>>
    /\ UNCHANGED <<slackSecretName, eventType, now, slackSecretValue, dateRange, totalBilling,
                   detailBillings, fields, frames, nextPageToken, rootResult, invocation, calls,
                   totalData, pages, clock, triggered, costGroupType, other, at, answer>>

\* Step compute-date-range: getDateRange is called and its result logged
ComputeDateRange ==
    /\ pc = "SECRET_RESOLVED"
    /\ at = "READY"
    /\ ~SecretIncomplete(slackSecretValue)
    /\ answer' = getDateRange(now)
    /\ at' = "DONE"
    /\ logs' = <<Log("DateRange computed", [dateRange |-> answer'])>>
    /\ UNCHANGED <<slackSecretName, eventType, now, pc, error, slackSecretValue, dateRange,
                   totalBilling, detailBillings, fields, frames, nextPageToken, rootResult,
                   invocation, calls, totalData, pages, clock, triggered, costGroupType, other>>

\* Step compute-date-range is recorded: dateRange is its result
DateRangeRecorded ==
    /\ pc = "SECRET_RESOLVED"
    /\ at = "DONE"
    /\ dateRange' = answer
    /\ pc' = "RANGE_COMPUTED"
    /\ at' = "READY"
    /\ answer' = NoAnswer
    /\ UNCHANGED <<slackSecretName, eventType, now, error, slackSecretValue, totalBilling,
                   detailBillings, fields, frames, nextPageToken, rootResult, invocation, calls,
                   totalData, pages, logs, clock, triggered, costGroupType, other>>

\* Step fetch-total-billing: getTotalBilling sends its query; totalData is the answer
\* Cost Explorer gives to it
FetchTotalBilling ==
    /\ pc = "RANGE_COMPUTED"
    /\ at = "READY"
    /\ \E data \in TotalResponses :
        /\ answer' = data
        /\ totalData' = data
    /\ calls' = Append(calls, Call("ce", TotalBillingInput(dateRange)))
    /\ at' = "SENT"
    /\ logs' = <<TotalBillingInputLog(dateRange)>>
    /\ UNCHANGED <<slackSecretName, eventType, now, pc, error, slackSecretValue, dateRange,
                   totalBilling, detailBillings, fields, frames, nextPageToken, rootResult,
                   invocation, pages, clock, triggered, costGroupType, other>>

\* Step fetch-total-billing: the .then or the .catch callback of getTotalBilling
\* handles the answer, and the billing is logged
TotalBillingThen ==
    /\ pc = "RANGE_COMPUTED"
    /\ at = "SENT"
    /\ answer' = TotalBillingOf(answer)
    /\ at' = "DONE"
    /\ logs' = logs \o TotalBillingOutputLogs(answer)
                    \o <<Log("TotalBilling fetched", [totalBilling |-> answer'])>>
    /\ UNCHANGED <<slackSecretName, eventType, now, pc, error, slackSecretValue, dateRange,
                   totalBilling, detailBillings, fields, frames, nextPageToken, rootResult,
                   invocation, calls, totalData, pages, clock, triggered, costGroupType, other>>

\* Step fetch-total-billing is recorded: totalBilling is its result
TotalBillingRecorded ==
    /\ pc = "RANGE_COMPUTED"
    /\ at = "DONE"
    /\ IF answer = Rejected
       THEN /\ Throw(RejectedMessage("ce"))
            /\ UNCHANGED totalBilling
       ELSE /\ totalBilling' = answer
            /\ pc' = "TOTAL_FETCHED"
            /\ UNCHANGED error
    /\ at' = "READY"
    /\ answer' = NoAnswer
    /\ UNCHANGED <<slackSecretName, eventType, now, slackSecretValue, dateRange, detailBillings,
                   fields, frames, nextPageToken, rootResult, invocation, calls, totalData,
                   pages, logs, clock, triggered, costGroupType, other>>

\* Step fetch-detail-billings in mode services: getServiceBilling sends the query for
\* the first page; pages are the answers Cost Explorer gives to the queries of the step
getServiceBilling ==
    /\ pc = "TOTAL_FETCHED"
    /\ at = "READY"
    /\ eventType = EventInputType.SERVICES
    /\ \E data \in GroupedResponses(GroupLists(ServiceKeys), {}, 1) :
        /\ answer' = data
        /\ pages' = <<data>>
    /\ calls' = Append(calls, Call("ce", ServiceBillingInput(dateRange, nextPageToken)))
    /\ at' = "SENT"
    /\ logs' = <<ServiceBillingInputLog(dateRange, nextPageToken)>>
    /\ UNCHANGED <<slackSecretName, eventType, now, pc, error, slackSecretValue, dateRange,
                   totalBilling, detailBillings, fields, frames, nextPageToken, rootResult,
                   invocation, totalData, clock, triggered, costGroupType, other>>

\* The .then or the .catch callback of getServiceBilling handles the answer to a page:
\* it calls getServiceBilling for the next page when the answer has one bucket and a
\* token, and otherwise every pending call returns and the billings are logged
ServiceBillingThen ==
    /\ pc = "TOTAL_FETCHED"
    /\ at = "SENT"
    /\ eventType = EventInputType.SERVICES
    /\ IF OneResult(answer) /\ ~Falsy(answer.NextPageToken)
       THEN /\ frames' = Append(frames, ServiceBillingsOf(answer))
            /\ nextPageToken' = answer.NextPageToken
            /\ \E data \in GroupedResponses(GroupLists(ServiceKeys), {}, Len(frames) + 2) :
                /\ answer' = data
                /\ pages' = Append(pages, data)
            /\ calls' = Append(calls,
                    Call("ce", ServiceBillingInput(dateRange, nextPageToken')))
            /\ logs' = logs \o ServiceBillingOutputLogs(answer)
                            \o <<ServiceBillingInputLog(dateRange, nextPageToken')>>
            /\ UNCHANGED at
       ELSE /\ answer' = Unwind(frames,
                    IF OneResult(answer) THEN Array(ServiceBillingsOf(answer)) ELSE undefined)
            /\ frames' = <<>>
            /\ nextPageToken' = Unset
            /\ at' = "DONE"
            /\ logs' = logs \o ServiceBillingOutputLogs(answer)
                            \o <<Log("ServiceBilling fetched", [serviceBillings |-> answer'])>>
            /\ UNCHANGED <<calls, pages>>
    /\ UNCHANGED <<slackSecretName, eventType, now, pc, error, slackSecretValue, dateRange,
                   totalBilling, detailBillings, fields, rootResult, invocation, totalData,
                   clock, triggered, costGroupType, other>>

\* getAccountBillings called whatever event.type is
getAccountBillingsInAnyMode ==
    /\ pc = "TOTAL_FETCHED"
    /\ at = "READY"
    /\ \E data \in GroupedResponses(AccountGroupsAlone, AccountGroupsDescribed, 1) :
        /\ answer' = data
        /\ pages' = <<data>>
    /\ calls' = Append(calls, Call("ce", AccountBillingsInput(dateRange, nextPageToken)))
    /\ at' = "SENT"
    /\ logs' = <<AccountBillingsInputLog(dateRange, nextPageToken)>>
    /\ UNCHANGED <<slackSecretName, eventType, now, pc, error, slackSecretValue, dateRange,
                   totalBilling, detailBillings, fields, frames, nextPageToken, rootResult,
                   invocation, totalData, clock, triggered, costGroupType, other>>

\* Step fetch-detail-billings in mode accounts: getAccountBillings sends the query for
\* the first page
getAccountBillings ==
    /\ pc = "TOTAL_FETCHED"
    /\ at = "READY"
    /\ eventType = EventInputType.ACCOUNTS
    /\ \E data \in GroupedResponses(AccountGroupsAlone, AccountGroupsDescribed, 1) :
        /\ answer' = data
        /\ pages' = <<data>>
    /\ calls' = Append(calls, Call("ce", AccountBillingsInput(dateRange, nextPageToken)))
    /\ at' = "SENT"
    /\ logs' = <<AccountBillingsInputLog(dateRange, nextPageToken)>>
    /\ UNCHANGED <<slackSecretName, eventType, now, pc, error, slackSecretValue, dateRange,
                   totalBilling, detailBillings, fields, frames, nextPageToken, rootResult,
                   invocation, totalData, clock, triggered, costGroupType, other>>

\* The .then or the .catch callback of getAccountBillings handles the answer to a page
AccountBillingsThen ==
    /\ pc = "TOTAL_FETCHED"
    /\ at = "SENT"
    /\ eventType = EventInputType.ACCOUNTS
    /\ IF OneResult(answer) /\ ~Falsy(answer.NextPageToken)
       THEN /\ frames' = Append(frames, AccountBillingsOf(answer))
            /\ nextPageToken' = answer.NextPageToken
            /\ \E data \in GroupedResponses(AccountGroupsAlone, AccountGroupsDescribed, Len(frames) + 2) :
                /\ answer' = data
                /\ pages' = Append(pages, data)
            /\ calls' = Append(calls,
                    Call("ce", AccountBillingsInput(dateRange, nextPageToken')))
            /\ logs' = logs \o AccountBillingsOutputLogs(answer)
                            \o <<AccountBillingsInputLog(dateRange, nextPageToken')>>
            /\ UNCHANGED at
       ELSE /\ answer' = Unwind(frames,
                    IF OneResult(answer) THEN Array(AccountBillingsOf(answer)) ELSE undefined)
            /\ frames' = <<>>
            /\ nextPageToken' = Unset
            /\ at' = "DONE"
            /\ logs' = logs \o AccountBillingsOutputLogs(answer)
                            \o <<Log("AccountBillings fetched", [accountBillings |-> answer'])>>
            /\ UNCHANGED <<calls, pages>>
    /\ UNCHANGED <<slackSecretName, eventType, now, pc, error, slackSecretValue, dateRange,
                   totalBilling, detailBillings, fields, rootResult, invocation, totalData,
                   clock, triggered, costGroupType, other>>

\* Step fetch-detail-billings is recorded: fields is its result, the billings mapped to
\* title and value
DetailBillingsRecorded ==
    /\ pc = "TOTAL_FETCHED"
    /\ at = "DONE"
    /\ detailBillings' = answer
    /\ fields' = IF eventType = EventInputType.ACCOUNTS
                 THEN AccountFields(answer)
                 ELSE ServiceFields(answer)
    /\ pc' = "DETAIL_FETCHED"
    /\ at' = "READY"
    /\ answer' = NoAnswer
    /\ UNCHANGED <<slackSecretName, eventType, now, error, slackSecretValue, dateRange,
                   totalBilling, frames, nextPageToken, rootResult, invocation, calls, totalData,
                   pages, logs, clock, triggered, costGroupType, other>>

\* Step post-slack-messages: the first chat.postMessage is called
PostRootMessage ==
    /\ pc = "DETAIL_FETCHED"
    /\ at = "READY"
    /\ answer' \in PostResponses
    /\ calls' = Append(calls,
            [api |-> "slack", token |-> slackSecretValue.token,
             input |-> RootMessage(slackSecretValue.channel, dateRange, totalBilling),
             output |-> Pending])
    /\ at' = "SENT"
    /\ logs' = <<>>
    /\ UNCHANGED <<slackSecretName, eventType, now, pc, error, slackSecretValue, dateRange,
                   totalBilling, detailBillings, fields, frames, nextPageToken, rootResult,
                   invocation, totalData, pages, clock, triggered, costGroupType, other>>

\* PostThreadMessage without the test of result.ok
PostThreadMessageIgnoringOk ==
    /\ pc = "DETAIL_FETCHED"
    /\ at = "SENT"
    /\ rootResult = undefined
    /\ answer # Rejected
    /\ rootResult' = answer
    /\ answer' \in PostResponses
    /\ calls' = Append(Answered(answer),
            [api |-> "slack", token |-> slackSecretValue.token,
             input |-> ThreadMessage(slackSecretValue.channel, answer.ts, fields),
             output |-> Pending])
    /\ UNCHANGED <<slackSecretName, eventType, now, pc, error, slackSecretValue, dateRange,
                   totalBilling, detailBillings, fields, frames, nextPageToken, invocation,
                   totalData, pages, logs, clock, triggered, costGroupType, other, at>>

\* PostThreadMessage posting nothing when fields is undefined
PostThreadMessageSkippingAbsent ==
    /\ pc = "DETAIL_FETCHED"
    /\ at = "SENT"
    /\ rootResult = undefined
    /\ answer # Rejected
    /\ answer.ok
    /\ rootResult' = answer
    /\ IF fields = undefined
       THEN /\ answer' = undefined
            /\ calls' = Answered(answer)
            /\ at' = "DONE"
       ELSE /\ answer' \in PostResponses
            /\ calls' = Append(Answered(answer),
                    [api |-> "slack", token |-> slackSecretValue.token,
                     input |-> ThreadMessage(slackSecretValue.channel, answer.ts, fields),
                     output |-> Pending])
            /\ UNCHANGED at
    /\ UNCHANGED <<slackSecretName, eventType, now, pc, error, slackSecretValue, dateRange,
                   totalBilling, detailBillings, fields, frames, nextPageToken, invocation,
                   totalData, pages, logs, clock, triggered, costGroupType, other>>

\* PostThreadMessage threading the detail under the first root message of the run that
\* was answered ok = true
PostThreadMessageUnderFirstRoot ==
    /\ pc = "DETAIL_FETCHED"
    /\ at = "SENT"
    /\ rootResult = undefined
    /\ answer # Rejected
    /\ answer.ok
    /\ rootResult' = answer
    /\ answer' \in PostResponses
    /\ calls' = Append(Answered(answer),
            [api |-> "slack", token |-> slackSecretValue.token,
             input |-> ThreadMessage(slackSecretValue.channel, (LET roots == {i \in 1..Len(calls) :
                                    /\ calls[i].api = "slack"
                                    /\ Answered(answer)[i].output \notin {Rejected, Pending}
                                    /\ Answered(answer)[i].output.ok}
                 IN  Answered(answer)[CHOOSE i \in roots :
                                        \A j \in roots : i <= j].output.ts), fields),
             output |-> Pending])
    /\ UNCHANGED <<slackSecretName, eventType, now, pc, error, slackSecretValue, dateRange,
                   totalBilling, detailBillings, fields, frames, nextPageToken, invocation,
                   totalData, pages, logs, clock, triggered, costGroupType, other, at>>

\* Step post-slack-messages: the first chat.postMessage returns ok = true, and the second
\* is called with the ts it returned
PostThreadMessage ==
    /\ pc = "DETAIL_FETCHED"
    /\ at = "SENT"
    /\ rootResult = undefined
    /\ answer # Rejected
    /\ answer.ok
    /\ rootResult' = answer
    /\ answer' \in PostResponses
    /\ calls' = Append(Answered(answer),
            [api |-> "slack", token |-> slackSecretValue.token,
             input |-> ThreadMessage(slackSecretValue.channel, answer.ts, fields),
             output |-> Pending])
    /\ UNCHANGED <<slackSecretName, eventType, now, pc, error, slackSecretValue, dateRange,
                   totalBilling, detailBillings, fields, frames, nextPageToken, invocation,
                   totalData, pages, logs, clock, triggered, costGroupType, other, at>>

\* Step post-slack-messages: the first chat.postMessage rejects, and so does the function
\* of the step, or returns ok = false, and the function of the step returns
RootMessageFailed ==
    /\ pc = "DETAIL_FETCHED"
    /\ at = "SENT"
    /\ rootResult = undefined
    /\ IF answer = Rejected THEN TRUE ELSE ~answer.ok
    /\ calls' = Answered(answer)
    /\ answer' = IF answer = Rejected THEN Rejected ELSE undefined
    /\ at' = "DONE"
    /\ UNCHANGED <<slackSecretName, eventType, now, pc, error, slackSecretValue, dateRange,
                   totalBilling, detailBillings, fields, frames, nextPageToken, rootResult,
                   invocation, totalData, pages, logs, clock, triggered, costGroupType, other>>

\* Step post-slack-messages: the second chat.postMessage rejects, and so does the
\* function of the step, or returns, and so does the function of the step
ThreadMessageAnswered ==
    /\ pc = "DETAIL_FETCHED"
    /\ at = "SENT"
    /\ rootResult # undefined
    /\ calls' = Answered(answer)
    /\ answer' = IF answer = Rejected THEN Rejected ELSE undefined
    /\ rootResult' = undefined
    /\ at' = "DONE"
    /\ UNCHANGED <<slackSecretName, eventType, now, pc, error, slackSecretValue, dateRange,
                   totalBilling, detailBillings, fields, frames, nextPageToken, invocation,
                   totalData, pages, logs, clock, triggered, costGroupType, other>>

\* Step post-slack-messages is recorded, or the run fails with its rejection
SlackMessagesRecorded ==
    /\ pc = "DETAIL_FETCHED"
    /\ at = "DONE"
    /\ IF answer = Rejected
       THEN Throw(RejectedMessage("slack"))
       ELSE /\ pc' = "NOTIFIED"
            /\ UNCHANGED error
    /\ at' = "READY"
    /\ answer' = NoAnswer
    /\ UNCHANGED <<slackSecretName, eventType, now, slackSecretValue, dateRange, totalBilling,
                   detailBillings, fields, frames, nextPageToken, rootResult, invocation, calls,
                   totalData, pages, logs, clock, triggered, costGroupType, other>>

\* ReturnOK taken before step post-slack-messages
ReturnOKBeforeNotifying ==
    /\ pc = "DETAIL_FETCHED"
    /\ at = "READY"
    /\ pc' = "SUCCEEDED"
    /\ logs' = <<>>
    /\ UNCHANGED <<slackSecretName, eventType, now, error, slackSecretValue, dateRange,
                   totalBilling, detailBillings, fields, frames, nextPageToken, rootResult,
                   invocation, calls, totalData, pages, clock, triggered, costGroupType, other,
                   at, answer>>

\* ReturnOK of a handler whose last await never resolves: the run stays where it is
ReturnOKNeverResolving ==
    /\ pc = "NOTIFIED"
    /\ UNCHANGED vars

\* return 'OK'
ReturnOK ==
    /\ pc = "NOTIFIED"
    /\ at = "READY"
    /\ pc' = "SUCCEEDED"
    /\ logs' = <<>>
    /\ UNCHANGED <<slackSecretName, eventType, now, error, slackSecretValue, dateRange,
                   totalBilling, detailBillings, fields, frames, nextPageToken, rootResult,
                   invocation, calls, totalData, pages, clock, triggered, costGroupType, other,
                   at, answer>>

\* Reinvoke replaying nothing: the handler starts over from its first step
ReinvokeFromScratch ==
    /\ pc \notin {"SUCCEEDED", "FAILED"}
    /\ pc = "VALIDATING" => at # "READY"
    /\ invocation < MaxInvocations
    /\ invocation' = invocation + 1
    /\ at' = "READY"
    /\ answer' = NoAnswer
    /\ frames' = <<>>
    /\ nextPageToken' = Unset
    /\ rootResult' = undefined
    /\ now' \in LaterNows(now)
    /\ logs' = EntryLogs(eventType)
    /\ pc' = "VALIDATING"
    /\ UNCHANGED <<slackSecretName, eventType, error, slackSecretValue, dateRange, totalBilling,
                   detailBillings, fields, calls, totalData, pages, clock, triggered,
                   costGroupType, other>>

\* Reinvoke executing compute-date-range again instead of replaying its result
ReinvokeRecomputingRange ==
    /\ pc \notin {"SUCCEEDED", "FAILED"}
    /\ pc = "VALIDATING" => at # "READY"
    /\ invocation < MaxInvocations
    /\ invocation' = invocation + 1
    /\ at' = "READY"
    /\ answer' = NoAnswer
    /\ frames' = <<>>
    /\ nextPageToken' = Unset
    /\ rootResult' = undefined
    /\ now' \in LaterNows(now)
    /\ logs' = EntryLogs(eventType)
    /\ dateRange' = IF dateRange = undefined THEN undefined ELSE getDateRange(now')
    /\ UNCHANGED <<slackSecretName, eventType, pc, error, slackSecretValue, totalBilling,
                   detailBillings, fields, calls, totalData, pages, clock, triggered,
                   costGroupType, other>>

\* The invocation is interrupted at an await, inside a step (its request in flight, or
\* its function settled and the step not yet recorded) or with a step recorded and
\* context.step not yet returned to the handler, and the runtime invokes the handler
\* again, the same day or the day after: the steps recorded complete are replayed from
\* their results, the interrupted step starts over and the answer that was on its way
\* is lost
Reinvoke ==
    /\ pc \notin {"SUCCEEDED", "FAILED"}
    /\ pc = "VALIDATING" => at # "READY"
    /\ invocation < MaxInvocations
    /\ invocation' = invocation + 1
    /\ at' = "READY"
    /\ answer' = NoAnswer
    /\ frames' = <<>>
    /\ nextPageToken' = Unset
    /\ rootResult' = undefined
    /\ now' \in LaterNows(now)
    /\ logs' = EntryLogs(eventType)
    /\ UNCHANGED <<slackSecretName, eventType, pc, error, slackSecretValue, dateRange,
                   totalBilling, detailBillings, fields, calls, totalData, pages, clock,
                   triggered, costGroupType, other>>

Next ==
    \/ ValidationFails
    \/ FetchSlackSecret
    \/ SlackSecretFetched
    \/ SlackSecretRecorded
    \/ SlackSecretIncomplete
    \/ ComputeDateRange
    \/ DateRangeRecorded
    \/ FetchTotalBilling
    \/ TotalBillingThen
    \/ TotalBillingRecorded
    \/ getServiceBilling
    \/ ServiceBillingThen
    \/ getAccountBillings
    \/ AccountBillingsThen
    \/ DetailBillingsRecorded
    \/ PostRootMessage
    \/ PostThreadMessage
    \/ RootMessageFailed
    \/ ThreadMessageAnswered
    \/ SlackMessagesRecorded
    \/ ReturnOK
    \/ Reinvoke

Spec == Init /\ [][Next]_vars

\* What the handler does next on its own: a request is sent, its answer arrives, a step
\* is recorded, a check throws, or the handler returns
HandlerStep ==
    \/ ValidationFails
    \/ FetchSlackSecret
    \/ SlackSecretFetched
    \/ SlackSecretRecorded
    \/ SlackSecretIncomplete
    \/ ComputeDateRange
    \/ DateRangeRecorded
    \/ FetchTotalBilling
    \/ TotalBillingThen
    \/ TotalBillingRecorded
    \/ getServiceBilling
    \/ ServiceBillingThen
    \/ getAccountBillings
    \/ AccountBillingsThen
    \/ DetailBillingsRecorded
    \/ PostRootMessage
    \/ PostThreadMessage
    \/ RootMessageFailed
    \/ ThreadMessageAnswered
    \/ SlackMessagesRecorded
    \/ ReturnOK

\* The runs in which every external call returns or fails and an interrupted
\* invocation is followed by another: the handler is never kept from its next step
SpecLive == Init /\ [][Next]_vars /\ WF_vars(HandlerStep)

-----------------------------------------------------------------------------
(* The reporting period on every calendar date *)

InitRange ==
    /\ slackSecretName = "example/slack/webhook"
    /\ eventType \in EventInputTypeValues
    /\ now \in AllNows
    /\ pc = "SECRET_RESOLVED"
    /\ error = Unset
    /\ slackSecretValue = [token |-> "xxxx-xxxxxxxxx-xxxx", channel |-> "example-channel"]
    /\ dateRange = undefined
    /\ totalBilling = undefined
    /\ detailBillings = undefined
    /\ fields = undefined
    /\ frames = <<>>
    /\ nextPageToken = Unset
    /\ rootResult = undefined
    /\ invocation = 1
    /\ calls = <<Call("secrets", slackSecretName)>>
    /\ totalData = undefined
    /\ pages = <<>>
    /\ logs = <<>>
    /\ clock = FirstTrigger
    /\ triggered = <<FirstTrigger>>
    /\ costGroupType \in (IF eventType \in EventInputTypeValues
                          THEN CostGroupTypesSending(eventType)
                          ELSE CostGroupTypeValues)
    /\ other = NoOtherRun
    /\ at = "READY"
    /\ answer = NoAnswer

NextRange ==
    \/ ComputeDateRange
    \/ DateRangeRecorded

SpecRange == InitRange /\ [][NextRange]_vars

-----------------------------------------------------------------------------
(* The schedule, minute by minute *)

InitSchedule ==
    /\ slackSecretName = "example/slack/webhook"
    /\ eventType = Unset
    /\ now \in RunNows
    /\ pc = "VALIDATING"
    /\ error = Unset
    /\ slackSecretValue = undefined
    /\ dateRange = undefined
    /\ totalBilling = undefined
    /\ detailBillings = undefined
    /\ fields = undefined
    /\ frames = <<>>
    /\ nextPageToken = Unset
    /\ rootResult = undefined
    /\ invocation = 1
    /\ calls = <<>>
    /\ totalData = undefined
    /\ pages = <<>>
    /\ logs = <<>>
    /\ clock = 0
    /\ triggered = <<>>
    /\ costGroupType \in CostGroupTypeValues
    /\ other = NoOtherRun
    /\ at = "READY"
    /\ answer = NoAnswer

\* A minute passes; when its expression fires, the schedule invokes the function with
\* the payload of its target
ScheduleTick ==
    /\ clock < MaxDays * 1440
    /\ clock' = clock + 1
    /\ IF CronFires(ScheduleExpression, clock' % 1440)
       THEN /\ triggered' = Append(triggered, clock')
            /\ eventType' = TargetInput(costGroupType).type
            /\ logs' = EntryLogs(eventType')
       ELSE UNCHANGED <<triggered, eventType, logs>>
    /\ UNCHANGED <<slackSecretName, now, pc, error, slackSecretValue, dateRange, totalBilling,
                   detailBillings, fields, frames, nextPageToken, rootResult, invocation, calls,
                   totalData, pages, costGroupType, other, at, answer>>

NextSchedule == ScheduleTick

SpecSchedule == InitSchedule /\ [][NextSchedule]_vars

-----------------------------------------------------------------------------
(* Two runs at a time.  The second run is a second invocation of handler: other holds
   what that invocation holds, and each of its steps goes through the same positions
   as a step of the first run *)

\* What the secret store, Cost Explorer and Slack can answer to the second run
OtherSecret == [token |-> "xxxx-xxxxxxxxx-xxxx", channel |-> "example-channel"]

OtherSecretResponses ==
    {Rejected, OtherSecret, [token |-> "xxxx-xxxxxxxxx-xxxx", channel |-> Unset]}

OtherTotalData == Data(<<Bucket(<<>>)>>, Unset)

OtherTotalResponses == {OtherTotalData}

\* The response to page number page of the grouped query of the second run, with the
\* continuation token it carries
OtherPage(type, page, token) ==
    IF type = EventInputType.ACCOUNTS
    THEN DataWithAttributes(
            <<Bucket(IF page = 1
                     THEN <<Group(AccountKeys[1]), Group(AccountKeys[2])>>
                     ELSE <<Group(AccountKeys[2])>>)>>, token,
            <<[Value |-> "111111111111", Attributes |-> [description |-> "dev"]],
              [Value |-> "222222222222", Attributes |-> undefined]>>)
    ELSE Data(<<Bucket(IF page = 1
                       THEN <<Group(ServiceKeys[1]), Group(ServiceKeys[2])>>
                       ELSE <<Group(ServiceKeys[2])>>)>>, token)

\* The page chain of the second run has two pages at most
OtherPageResponses(type, page) ==
    {OtherPage(type, page, Unset)}
    \cup (IF page = 1 THEN {OtherPage(type, page, TokenAfter(page))} ELSE {})

\* Answers to the root post of the second run, and to its threaded post
OtherRootResponses ==
    {Rejected, [ok |-> FALSE, ts |-> Unset], [ok |-> TRUE, ts |-> MessageTs(Posted + 1)]}

OtherThreadResponses == {[ok |-> TRUE, ts |-> MessageTs(Posted + 1)]}

\* The second run at the start of a step, the step before recorded
OtherAt(position) ==
    [other EXCEPT !.pc = position, !.at = "READY", !.answer = NoAnswer]

\* The second run failed with the thrown message
OtherThrow(message) ==
    [other EXCEPT !.pc = "FAILED", !.error = message, !.at = "READY", !.answer = NoAnswer]

\* The second run with the request sent and the answer a on its way
OtherSent(request, a) ==
    [other EXCEPT !.at = "SENT", !.answer = a, !.calls = Append(@, request)]

\* The second run once the function of its step has settled with result
OtherDone(result) == [other EXCEPT !.at = "DONE", !.answer = result]

\* The requests of the second run, the last one answered
OtherAnswered(output) == [other.calls EXCEPT ![Len(other.calls)].output = output]

\* Step fetch-slack-secret of the second run: the lookup is sent, it settles, the step
\* is recorded or the run fails with the rejection
OtherFetchSlackSecret ==
    CASE other.at = "READY" ->
            {OtherSent(Call("secrets", slackSecretName), a) : a \in OtherSecretResponses}
      [] other.at = "SENT" -> {OtherDone(other.answer)}
      [] OTHER ->
            IF other.answer = Rejected
            THEN {OtherThrow(RejectedMessage("secrets"))}
            ELSE {[OtherAt("SECRET_RESOLVED") EXCEPT !.slackSecretValue = other.answer]}

\* The check of the secret and step compute-date-range of the second run
OtherComputeDateRange ==
    CASE other.at = "READY" ->
            IF SecretIncomplete(other.slackSecretValue)
            THEN {OtherThrow(SecretError)}
            ELSE {OtherDone(getDateRange(now))}
      [] OTHER -> {[OtherAt("RANGE_COMPUTED") EXCEPT !.dateRange = other.answer]}

\* Step fetch-total-billing of the second run
OtherFetchTotalBilling ==
    CASE other.at = "READY" ->
            {OtherSent(Call("ce", TotalBillingInput(other.dateRange)), a) :
                a \in OtherTotalResponses}
      [] other.at = "SENT" -> {OtherDone(TotalBillingOf(other.answer))}
      [] OTHER -> {[OtherAt("TOTAL_FETCHED") EXCEPT !.totalBilling = other.answer]}

\* The request of getAccountBillings or getServiceBilling, as event.type of the second
\* run has it
OtherGroupedInput(token) ==
    IF other.eventType = EventInputType.ACCOUNTS
    THEN AccountBillingsInput(other.dateRange, token)
    ELSE ServiceBillingInput(other.dateRange, token)

\* The billings of one page of the second run
OtherBillingsOf(data) ==
    IF other.eventType = EventInputType.ACCOUNTS
    THEN AccountBillingsOf(data)
    ELSE ServiceBillingsOf(data)

\* Step fetch-detail-billings of the second run: the first page is requested; an answer
\* with one bucket and a token has the next page requested, any other answer has every
\* pending call return; the step is recorded
OtherFetchDetailBillings ==
    CASE other.at = "READY" ->
            {OtherSent(Call("ce", OtherGroupedInput(Unset)), a) :
                a \in OtherPageResponses(other.eventType, 1)}
      [] other.at = "SENT" ->
            IF OneResult(other.answer) /\ ~Falsy(other.answer.NextPageToken)
            THEN {[other EXCEPT
                     !.frames = Append(@, OtherBillingsOf(other.answer)),
                     !.answer = a,
                     !.calls = Append(@, Call("ce",
                                    OtherGroupedInput(other.answer.NextPageToken)))] :
                    a \in OtherPageResponses(other.eventType, Len(other.frames) + 2)}
            ELSE {[OtherDone(Unwind(other.frames,
                        IF OneResult(other.answer)
                        THEN Array(OtherBillingsOf(other.answer))
                        ELSE undefined)) EXCEPT !.frames = <<>>]}
      [] OTHER ->
            {[OtherAt("DETAIL_FETCHED") EXCEPT
                !.fields = IF other.eventType = EventInputType.ACCOUNTS
                           THEN AccountFields(other.answer)
                           ELSE ServiceFields(other.answer)]}

\* Step post-slack-messages of the second run: the root message is posted; answered
\* ok = true it has the threaded message posted with its ts, and the function of the
\* step returns, or rejects, otherwise; the step is recorded or the run fails
OtherPostSlackMessages ==
    CASE other.at = "READY" ->
            {OtherSent([api |-> "slack", token |-> other.slackSecretValue.token,
                        input |-> RootMessage(other.slackSecretValue.channel,
                                              other.dateRange, other.totalBilling),
                        output |-> Pending], a) : a \in OtherRootResponses}
      [] other.at = "SENT" /\ other.rootResult = undefined ->
            IF other.answer = Rejected
            THEN {[OtherDone(Rejected) EXCEPT !.calls = OtherAnswered(other.answer)]}
            ELSE IF ~other.answer.ok
            THEN {[OtherDone(undefined) EXCEPT !.calls = OtherAnswered(other.answer)]}
            ELSE {[other EXCEPT
                     !.rootResult = other.answer,
                     !.answer = a,
                     !.calls = Append(OtherAnswered(other.answer),
                        [api |-> "slack", token |-> other.slackSecretValue.token,
                         input |-> ThreadMessage(other.slackSecretValue.channel,
                                                 other.answer.ts, other.fields),
                         output |-> Pending])] : a \in OtherThreadResponses}
      [] other.at = "SENT" ->
            {[OtherDone(IF other.answer = Rejected THEN Rejected ELSE undefined) EXCEPT
                !.calls = OtherAnswered(other.answer), !.rootResult = undefined]}
      [] OTHER ->
            IF other.answer = Rejected
            THEN {OtherThrow(RejectedMessage("slack"))}
            ELSE {OtherAt("NOTIFIED")}

\* What the second run can be after its next transition
OtherSuccessors ==
    CASE other.pc = "VALIDATING" -> OtherFetchSlackSecret
      [] other.pc = "SECRET_RESOLVED" -> OtherComputeDateRange
      [] other.pc = "RANGE_COMPUTED" -> OtherFetchTotalBilling
      [] other.pc = "TOTAL_FETCHED" -> OtherFetchDetailBillings
      [] other.pc = "DETAIL_FETCHED" -> OtherPostSlackMessages
      [] other.pc = "NOTIFIED" -> {OtherAt("SUCCEEDED")}
      [] OTHER -> {}

\* OtherRunStep of a handler that keeps the result of the root chat.postMessage in a
\* variable of the module, which the two runs share
OtherRunStepSharingResult ==
    /\ other' \in OtherSuccessors
    /\ rootResult' = IF other.pc = "DETAIL_FETCHED" THEN other'.rootResult ELSE rootResult
    /\ UNCHANGED <<slackSecretName, eventType, now, pc, error, slackSecretValue, dateRange,
                   totalBilling, detailBillings, fields, frames, nextPageToken, invocation,
                   calls, totalData, pages, logs, clock, triggered, costGroupType, at, answer>>

\* One transition of the second run of handler: a request is sent, an answer is
\* handled, a step is recorded, a check throws or the handler returns.  Everything the
\* handler holds is local to the invocation, so nothing of the first run changes
OtherRunStep ==
    /\ other' \in OtherSuccessors
    /\ UNCHANGED <<slackSecretName, eventType, now, pc, error, slackSecretValue, dateRange,
                   totalBilling, detailBillings, fields, frames, nextPageToken, rootResult,
                   invocation, calls, totalData, pages, logs, clock, triggered, costGroupType,
                   at, answer>>

InitPair ==
    /\ slackSecretName = "example/slack/webhook"
    /\ eventType \in EventInputTypeValues
    /\ now \in RunNows
    /\ pc = "VALIDATING"
    /\ error = Unset
    /\ slackSecretValue = undefined
    /\ dateRange = undefined
    /\ totalBilling = undefined
    /\ detailBillings = undefined
    /\ fields = undefined
    /\ frames = <<>>
    /\ nextPageToken = Unset
    /\ rootResult = undefined
    /\ invocation = 1
    /\ calls = <<>>
    /\ totalData = undefined
    /\ pages = <<>>
    /\ logs = EntryLogs(eventType)
    /\ clock = FirstTrigger
    /\ triggered = <<FirstTrigger>>
    /\ costGroupType \in CostGroupTypesSending(eventType)
    /\ other \in {[NoOtherRun EXCEPT !.eventType = type, !.pc = "VALIDATING"] :
                    type \in EventInputTypeValues}
    /\ at = "READY"
    /\ answer = NoAnswer

NextPair ==
    \/ FetchSlackSecret
    \/ SlackSecretFetched
    \/ SlackSecretRecorded
    \/ SlackSecretIncomplete
    \/ ComputeDateRange
    \/ DateRangeRecorded
    \/ FetchTotalBilling
    \/ TotalBillingThen
    \/ TotalBillingRecorded
    \/ getServiceBilling
    \/ ServiceBillingThen
    \/ getAccountBillings
    \/ AccountBillingsThen
    \/ DetailBillingsRecorded
    \/ PostRootMessage
    \/ PostThreadMessage
    \/ RootMessageFailed
    \/ ThreadMessageAnswered
    \/ SlackMessagesRecorded
    \/ ReturnOK
    \/ OtherRunStep

SpecPair == InitPair /\ [][NextPair]_vars

-----------------------------------------------------------------------------
(* Properties: the grouped fetch *)

\* Step fetch-detail-billings has completed
DetailDone ==
    \/ pc \in {"DETAIL_FETCHED", "NOTIFIED", "SUCCEEDED"}
    \/ pc = "FAILED" /\ pages # <<>>

\* The account attributes a LINKED_ACCOUNT page carries
AttributesOf(page) ==
    IF "DimensionValueAttributes" \in DOMAIN page
    THEN page.DimensionValueAttributes
    ELSE <<>>

HasAttribute(page, group) ==
    \E k \in 1..Len(AttributesOf(page)) : AttributesOf(page)[k].Value = group.Keys[1]

\* "<id> (<description>)" for a group row that has an attribute entry
LabelOf(page, group) ==
    LET attr == AttributesOf(page)[
                    CHOOSE k \in 1..Len(AttributesOf(page)) :
                        AttributesOf(page)[k].Value = group.Keys[1]]
    IN  group.Keys[1] \o " ("
        \o (IF attr.Attributes = undefined THEN "" ELSE attr.Attributes.description)
        \o ")"

\* The group rows of a page, in the order of the response
RowsOfPage(page) == page.ResultsByTime[1].Groups

\* The billing a group row of a page stands for: in account mode named
\* "<id> (<description>)" with an attribute entry and by the raw id without one
RowOf(page, group) ==
    IF eventType = "services"
    THEN [service |-> group.Keys[1],
          unit    |-> group.Metrics.AmortizedCost.Unit,
          amount  |-> group.Metrics.AmortizedCost.Amount]
    ELSE [account |-> IF HasAttribute(page, group)
                      THEN LabelOf(page, group)
                      ELSE group.Keys[1],
          unit    |-> group.Metrics.AmortizedCost.Unit,
          amount  |-> group.Metrics.AmortizedCost.Amount]

RECURSIVE RowsBefore(_)
\* The number of group rows of the pages before page number p
RowsBefore(p) ==
    IF p = 1 THEN 0 ELSE RowsBefore(p - 1) + Len(RowsOfPage(pages[p - 1]))

\* C1: in either mode, when every page of the chain of a grouped fetch succeeds with
\* exactly one result bucket, the fetch returns the group rows of all its pages, page
\* after page and within a page in the order of the response: group row j of page p
\* is at position (group rows of the pages before p) + j, and there is no other row.
C1_PagesConcatenatedInOrder ==
    (/\ DetailDone
     /\ \A p \in 1..Len(pages) : OneResult(pages[p]))
    => /\ detailBillings # undefined
       /\ Len(detailBillings.items) = RowsBefore(Len(pages) + 1)
       /\ \A p \in 1..Len(pages) :
            \A j \in 1..Len(RowsOfPage(pages[p])) :
                detailBillings.items[RowsBefore(p) + j]
                    = RowOf(pages[p], RowsOfPage(pages[p])[j])

\* C2: when the call for any page of a grouped fetch is rejected, the fetch returns
\* undefined, never the rows of the pages before.
C2_RejectedPageYieldsAbsent ==
    (/\ DetailDone
     /\ \E p \in 1..Len(pages) : pages[p] = Rejected)
    => detailBillings = undefined

\* C3: in account mode every group row of a page is in the result: with an attribute
\* entry as "<id> (<description>)", without one as the raw id.
C3_EveryAccountRowIncluded ==
    (/\ DetailDone
     /\ eventType = "accounts"
     /\ Len(pages) = 1
     /\ OneResult(pages[1]))
    => LET groups == pages[1].ResultsByTime[1].Groups
       IN  /\ detailBillings # undefined
           /\ Len(detailBillings.items) = Len(groups)
           /\ \A i \in 1..Len(groups) :
                detailBillings.items[i].account =
                    IF HasAttribute(pages[1], groups[i])
                    THEN LabelOf(pages[1], groups[i])
                    ELSE groups[i].Keys[1]

-----------------------------------------------------------------------------
(* Properties: the reporting period *)

\* The calendar, month counted from 1
MonthLength(y, m) ==
    CASE m \in {1, 3, 5, 7, 8, 10, 12} -> 31
      [] m \in {4, 6, 9, 11} -> 30
      [] OTHER -> IF y % 400 = 0 \/ (y % 4 = 0 /\ y % 100 # 0) THEN 29 ELSE 28

TwoDigits ==
    <<"01", "02", "03", "04", "05", "06", "07", "08", "09", "10", "11", "12", "13",
      "14", "15", "16", "17", "18", "19", "20", "21", "22", "23", "24", "25", "26",
      "27", "28", "29", "30", "31">>

\* YYYY-MM-DD, month counted from 1
IsoDate(y, m, d) == ToString(y) \o "-" \o TwoDigits[m] \o "-" \o TwoDigits[d]

RangeComputed == pc = "RANGE_COMPUTED"

\* C4: on the 1st of a month the range is the whole month before: from its 1st to
\* its last day, December of the year before when now is in January.
C4_FirstDayGivesPreviousMonth ==
    (RangeComputed /\ now.date = 1)
    => LET y == IF now.month = 0 THEN now.year - 1 ELSE now.year
           m == IF now.month = 0 THEN 12 ELSE now.month
       IN  dateRange = [start |-> IsoDate(y, m, 1),
                        end   |-> IsoDate(y, m, MonthLength(y, m))]

\* The range computed on 2024-03-01 is February 2024, a leap February
C4_Witness ==
    /\ RangeComputed
    /\ now = [year |-> 2024, month |-> 2, date |-> 1]
    /\ dateRange = [start |-> "2024-02-01", end |-> "2024-02-29"]

\* C5: on day N > 1 of month M the range is from the 1st of M to day N - 1 of M.
C5_LaterDayGivesMonthToYesterday ==
    (RangeComputed /\ now.date > 1)
    => dateRange = [start |-> IsoDate(now.year, now.month + 1, 1),
                    end   |-> IsoDate(now.year, now.month + 1, now.date - 1)]

\* The range computed on 2023-02-23 is 2023-02-01 to 2023-02-22
C5_Witness ==
    /\ RangeComputed
    /\ now = [year |-> 2023, month |-> 1, date |-> 23]
    /\ dateRange = [start |-> "2023-02-01", end |-> "2023-02-22"]

-----------------------------------------------------------------------------
(* Properties: the run *)

Finished == pc \in {"SUCCEEDED", "FAILED"}

\* The three conditions for a run to get past its configuration
Configured ==
    /\ slackSecretName \notin {Unset, ""}
    /\ eventType \in {"accounts", "services"}
    /\ slackSecretValue # undefined
    /\ slackSecretValue.token \notin {Unset, ""}
    /\ slackSecretValue.channel \notin {Unset, ""}

\* A chat.postMessage call was rejected
PostRejected ==
    \E i \in 1..Len(calls) : calls[i].api = "slack" /\ calls[i].output = Rejected

\* C6: a configured run ends SUCCEEDED whatever Cost Explorer answered to the total
\* query and to the pages of the grouped query (one bucket, a rejected call, no
\* result bucket), and a total or detail whose query had a call rejected or answered
\* without exactly one bucket is carried as undefined.
C6_BillingOutcomesNeverFailTheRun ==
    (Finished /\ Configured)
    => /\ pc = "SUCCEEDED"
       /\ error = Unset
       /\ totalData # undefined /\ pages # <<>>
       /\ ~OneResult(totalData) => totalBilling = undefined
       /\ (\E p \in 1..Len(pages) : ~OneResult(pages[p]))
            => (detailBillings = undefined /\ fields = undefined)

InputErrors ==
    {"missing input variable type",
     "invalid input variable Type. Valid values are accounts or services."}

\* C7: once the checks before the first step are over, a run whose type is not
\* exactly "accounts" or "services" has FAILED with an error and has called
\* nothing; a run whose type is one of the two has no input error, and has gone
\* on to fetch the secret when the secret name is configured too.
C7_TypeDecidesInputValidation ==
    pc # "VALIDATING"
    => /\ eventType \notin {"accounts", "services"}
            => (pc = "FAILED" /\ error # Unset /\ calls = <<>>)
       /\ eventType \in {"accounts", "services"}
            => /\ error \notin InputErrors
               /\ slackSecretName \notin {Unset, ""} => calls # <<>>

\* The type "Accounts", with a capital, failed the run
C7_Witness ==
    /\ pc = "FAILED"
    /\ eventType = "Accounts"
    /\ slackSecretName = "example/slack/webhook"
    /\ error \in InputErrors

\* C8: once the checks before the first step are over, a run whose secret name
\* is absent or empty has FAILED with an error message, whatever its type.
C8_MissingSecretNameFails ==
    (pc # "VALIDATING" /\ slackSecretName \in {Unset, ""})
    => (pc = "FAILED" /\ error \notin {Unset, ""})

\* A run with a valid type and an empty secret name failed
C8_Witness ==
    /\ pc = "FAILED"
    /\ slackSecretName = ""
    /\ eventType = "services"
    /\ error = "missing environment variable SLACK_SECRET_NAME."

\* C9: from a resolved secret that lacks the token or the channel (or is nothing
\* at all) the run only goes to FAILED, with the one message that names both
\* token and channel; until then, whenever it is invoked again, it stays where it is
\* with the same secret, starts no step and sends no request.
C9_IncompleteSecretFails ==
    [][(/\ pc = "SECRET_RESOLVED"
        /\ \/ slackSecretValue = undefined
           \/ slackSecretValue.token \in {Unset, ""}
           \/ slackSecretValue.channel \in {Unset, ""})
       => \/ pc' = "FAILED" /\ error' = "Slack secret must contain token and channel."
          \/ /\ invocation' = invocation + 1
             /\ pc' = pc /\ at' = "READY" /\ at = "READY"
             /\ slackSecretValue' = slackSecretValue
             /\ calls' = calls]_vars

\* A secret with a token and no channel failed the run
C9_Witness ==
    /\ pc = "FAILED"
    /\ slackSecretValue = [token |-> "xxxx-xxxxxxxxx-xxxx", channel |-> Unset]
    /\ error = "Slack secret must contain token and channel."

IsThreaded(call) == call.api = "slack" /\ "thread_ts" \in DOMAIN call.input

IsRoot(call) == call.api = "slack" /\ "thread_ts" \notin DOMAIN call.input

\* C10: every threaded post comes right after a root post that returned ok = true
\* and carries the ts that root post returned as its thread_ts; so the first post
\* is a root post and none is threaded after a root post that returned ok = false.
C10_DetailThreadedUnderOkRoot ==
    \A i \in 1..Len(calls) :
        IsThreaded(calls[i])
        => /\ i > 1
           /\ IsRoot(calls[i - 1])
           /\ calls[i - 1].output # Rejected
           /\ calls[i - 1].output.ok
           /\ calls[i].input.thread_ts = calls[i - 1].output.ts
           /\ calls[i].input.thread_ts # Unset

\* A run posted the root message, then the detail under it, and succeeded
C10_Witness ==
    /\ pc = "SUCCEEDED"
    /\ Len(calls) > 1
    /\ IsThreaded(calls[Len(calls)])
    /\ IsRoot(calls[Len(calls) - 1])

\* C11: a configured run ends SUCCEEDED whatever happens to its chat posts: a post
\* that returns ok = false and a post whose call is rejected alike.
C11_DeliveryFailureNeverFailsTheRun ==
    (Finished /\ Configured) => pc = "SUCCEEDED"

\* The call was answered: it is not in flight and was not rejected
Returned(call) == call.output # Rejected /\ call.output # Pending

\* The post after which the function of step post-slack-messages returns: a threaded
\* post that returned, or a root post that returned ok = false
EndsNotification(call) ==
    /\ call.api = "slack"
    /\ Returned(call)
    /\ IF "thread_ts" \in DOMAIN call.input THEN TRUE ELSE ~call.output.ok

\* The steps of the handler, in the order it runs them
Steps ==
    <<"fetch-slack-secret", "compute-date-range", "fetch-total-billing",
      "fetch-detail-billings", "post-slack-messages">>

\* How many steps are recorded complete: the position of the run tells it, and for a
\* failed run the error it failed with
StepsRecorded ==
    CASE pc = "VALIDATING" -> 0
      [] pc = "SECRET_RESOLVED" -> 1
      [] pc = "RANGE_COMPUTED" -> 2
      [] pc = "TOTAL_FETCHED" -> 3
      [] pc = "DETAIL_FETCHED" -> 4
      [] pc \in {"NOTIFIED", "SUCCEEDED"} -> 5
      [] OTHER -> CASE error = SecretError -> 1
                    [] error = RejectedMessage("ce") -> 2
                    [] error = RejectedMessage("slack") -> 4
                    [] OTHER -> 0

\* A step is recorded complete
Recorded(step) ==
    \E k \in 1..StepsRecorded : Steps[k] = step

\* The step a request belongs to
StepOfCall(call) ==
    CASE call.api = "secrets" -> "fetch-slack-secret"
      [] call.api = "slack" -> "post-slack-messages"
      [] call.api = "ce" /\ "GroupBy" \in DOMAIN call.input -> "fetch-detail-billings"
      [] OTHER -> "fetch-total-billing"

\* C12: no transition of a run, a re-invocation included, sends a request of a step
\* that is recorded complete, takes a step back from the steps recorded complete or
\* changes the result recorded for one.
C12_CompletedStepsNotReExecuted ==
    [][/\ \A i \in (Len(calls) + 1)..Len(calls') : ~Recorded(StepOfCall(calls'[i]))
       /\ StepsRecorded' >= StepsRecorded
       /\ Recorded("fetch-slack-secret") => slackSecretValue' = slackSecretValue
       /\ Recorded("compute-date-range") => dateRange' = dateRange
       /\ Recorded("fetch-total-billing") => totalBilling' = totalBilling
       /\ Recorded("fetch-detail-billings") =>
            (fields' = fields /\ detailBillings' = detailBillings)]_vars

\* A run interrupted inside post-slack-messages, its root message in flight: it has
\* fetched the secret once and queried the total once, and has posted the root message
\* twice
C12_Witness ==
    /\ pc = "SUCCEEDED"
    /\ invocation = 2
    /\ Len(SelectSeq(calls, LAMBDA c : c.api = "secrets")) = 1
    /\ Len(SelectSeq(calls, LAMBDA c : StepOfCall(c) = "fetch-total-billing")) = 1
    /\ Len(SelectSeq(calls, LAMBDA c : IsRoot(c))) = 2
    /\ SelectSeq(calls, LAMBDA c : IsRoot(c))[1].output = Pending

\* The service or account name of a row of the aggregation
NameOfRow(row) == IF eventType = "services" THEN row.service ELSE row.account

\* C13: in a run that SUCCEEDED every root post has the text that names the start and
\* the end of the range the queries were made for, and, when the total query answered
\* one bucket, an attachment text made of that bucket's Amount string and Unit; every
\* threaded post made while the aggregation has rows has one field per row, in the
\* order of the rows, titled with the row's name after the ":aws: " icon and valued
\* "<amount> <unit>".
C13_MessagesReflectFetchedData ==
    pc = "SUCCEEDED"
    => \A i \in 1..Len(calls) :
        /\ calls[i].api = "ce" =>
                calls[i].input.TimePeriod = [Start |-> dateRange.start, End |-> dateRange.end]
        /\ IsRoot(calls[i]) =>
            /\ calls[i].input.text
                 = "AWS Cost Reports (" \o dateRange.start \o " - " \o dateRange.end \o ")"
            /\ Len(calls[i].input.attachments) = 1
            /\ OneResult(totalData) =>
                 calls[i].input.attachments[1].text
                    = totalData.ResultsByTime[1].Total.AmortizedCost.Amount \o " "
                      \o totalData.ResultsByTime[1].Total.AmortizedCost.Unit
        /\ (IsThreaded(calls[i]) /\ detailBillings # undefined) =>
            LET rows == detailBillings.items
                sent == calls[i].input.attachments[1].fields
            IN  /\ Len(calls[i].input.attachments) = 1
                /\ sent # undefined
                /\ Len(sent.items) = Len(rows)
                /\ \A k \in 1..Len(rows) :
                    /\ sent.items[k].title = ":aws: " \o NameOfRow(rows[k])
                    /\ sent.items[k].value = rows[k].amount \o " " \o rows[k].unit

\* The run of 2023-02-23 in service mode: two pages give three rows, the root post
\* shows 1.23456 USD for 2023-02-01 to 2023-02-22 and the threaded post three fields
C13_Witness ==
    /\ pc = "SUCCEEDED"
    /\ eventType = "services"
    /\ Len(calls) = 6
    /\ calls[5].input.text = "AWS Cost Reports (2023-02-01 - 2023-02-22)"
    /\ calls[5].input.attachments[1].text = "1.23456 USD"
    /\ IsThreaded(calls[6])
    /\ calls[6].input.attachments[1].fields
         = Array(<<[title |-> ":aws: Tax", value |-> "1.39 USD", short |-> FALSE],
                   [title |-> ":aws: AWS CloudTrail", value |-> "0 USD", short |-> FALSE],
                   [title |-> ":aws: AWS CloudTrail", value |-> "0 USD", short |-> FALSE]>>)

\* C14: when any page of a grouped fetch, the first or a later one, is a response
\* with no result bucket, the fetch returns undefined, never the rows of the pages
\* before.
C14_EmptyPageYieldsAbsent ==
    (/\ DetailDone
     /\ \E p \in 1..Len(pages) :
            pages[p] # Rejected /\ Len(pages[p].ResultsByTime) = 0)
    => detailBillings = undefined

TotalQueries == SelectSeq(calls, LAMBDA c : c.api = "ce" /\ "GroupBy" \notin DOMAIN c.input)

\* What getTotalBilling returns on the last answer Cost Explorer gave to its query
TotalExpected ==
    IF totalData # Rejected /\ Len(totalData.ResultsByTime) = 1
    THEN [unit   |-> totalData.ResultsByTime[1].Total.AmortizedCost.Unit,
          amount |-> totalData.ResultsByTime[1].Total.AmortizedCost.Amount]
    ELSE undefined

\* C15: no query without GroupBy is sent before the range is recorded, and each
\* invocation sends at most one, for the run's range; what getTotalBilling returns, and
\* the total recorded for the step, is the Unit and Amount of the answer's bucket when
\* the query answered exactly one bucket and undefined in every other case (no bucket,
\* several buckets, a rejected call), none of which gives the run an error.
C15_TotalFromExactlyOneBucket ==
    /\ Len(TotalQueries) <= invocation
    /\ dateRange = undefined => TotalQueries = <<>>
    /\ \A i \in 1..Len(TotalQueries) :
         TotalQueries[i].input
           = [TimePeriod |-> [Start |-> dateRange.start, End |-> dateRange.end],
              Granularity |-> "MONTHLY", Metrics |-> <<"AMORTIZED_COST">>]
    /\ (pc = "RANGE_COMPUTED" /\ at # "READY") =>
         /\ TotalQueries # <<>>
         /\ calls[Len(calls)] = TotalQueries[Len(TotalQueries)]
    /\ (pc = "RANGE_COMPUTED" /\ at = "DONE") => answer = TotalExpected
    /\ error # RejectedMessage("ce")
    /\ IF Recorded("fetch-total-billing")
       THEN TotalQueries # <<>> /\ totalBilling = TotalExpected
       ELSE totalBilling = undefined

\* The total query was sent twice, the first answer lost to an interruption, and the
\* second answered two buckets: the total is undefined and the run succeeded
C15_Witness ==
    /\ pc = "SUCCEEDED"
    /\ totalData # undefined /\ totalData # Rejected
    /\ Len(totalData.ResultsByTime) = 2
    /\ totalBilling = undefined
    /\ Len(TotalQueries) = 2

\* Step post-slack-messages is recorded complete
Notified == pc \in {"NOTIFIED", "SUCCEEDED"}

\* The position in calls of the last root post
LastRoot == CHOOSE i \in 1..Len(calls) :
                IsRoot(calls[i]) /\ \A j \in (i + 1)..Len(calls) : ~IsRoot(calls[j])

\* C16: a configured run fails only on a rejected chat post, never for an undefined
\* total or detail.  When post-slack-messages is complete the root message was posted,
\* with the attachment text "undefined undefined" when the total is undefined; and
\* when that root post returned ok = true the threaded message was posted right after
\* it, its attachment carrying no fields when the detail is undefined.
C16_AbsentDataNeverBlocksDelivery ==
    /\ (pc = "FAILED" /\ Configured) => PostRejected
    /\ Notified =>
        /\ \E i \in 1..Len(calls) : IsRoot(calls[i])
        /\ LastRoot >= Len(calls) - 1
        /\ totalBilling = undefined =>
                calls[LastRoot].input.attachments[1].text = "undefined undefined"
        /\ calls[LastRoot].output.ok =>
            /\ LastRoot = Len(calls) - 1
            /\ IsThreaded(calls[Len(calls)])
            /\ fields = undefined =>
                    calls[Len(calls)].input.attachments[1].fields = undefined
        /\ ~calls[LastRoot].output.ok => LastRoot = Len(calls)

\* Both queries were rejected and both messages were posted all the same
C16_Witness ==
    /\ pc = "SUCCEEDED"
    /\ totalData = Rejected /\ totalBilling = undefined
    /\ pages = <<Rejected>> /\ fields = undefined
    /\ Len(calls) = 5
    /\ calls[4].input.attachments[1].text = "undefined undefined"
    /\ calls[4].output.ok
    /\ IsThreaded(calls[5])
    /\ calls[5].input.attachments[1].fields = undefined

GroupedQueries == SelectSeq(calls, LAMBDA c : c.api = "ce" /\ "GroupBy" \in DOMAIN c.input)

ServiceNames == {ServiceKeys[k] : k \in 1..Len(ServiceKeys)}

\* "<id> (<description>)", the description possibly empty
AccountLabels ==
    {AccountKeys[k] \o " (" \o d \o ")" : k \in 1..Len(AccountKeys), d \in {"", "dev"}}

\* C17: every grouped query of a run, first page or later, re-executed or not, is
\* grouped by the one dimension of the run's type: SERVICE for "services",
\* LINKED_ACCOUNT for "accounts"; and the field titles are service names in the first
\* case and account labels in the second.
C17_ModeSelectsTheGroupedFetch ==
    /\ \A i \in 1..Len(GroupedQueries) :
        /\ eventType \in {"services", "accounts"}
        /\ GroupedQueries[i].input.GroupBy
             = <<[Type |-> "DIMENSION",
                  Key  |-> IF eventType = "services" THEN "SERVICE" ELSE "LINKED_ACCOUNT"]>>
    /\ fields # undefined =>
        \A k \in 1..Len(fields.items) :
            fields.items[k].title
                \in (IF eventType = "services" THEN ServiceNames ELSE AccountLabels)

\* A run of type "accounts" made two LINKED_ACCOUNT queries and titled a field with
\* an account label
C17_Witness ==
    /\ pc = "SUCCEEDED"
    /\ eventType = "accounts"
    /\ Len(GroupedQueries) = 2
    /\ GroupedQueries[2].input.GroupBy[1].Key = "LINKED_ACCOUNT"
    /\ GroupedQueries[2].input.NextPageToken = "page-2"
    /\ fields # undefined
    /\ \E k \in 1..Len(fields.items) : fields.items[k].title = "111111111111 (dev)"

\* The result of a step: what its function settled with while the step is not yet
\* recorded, and what is recorded for it afterwards
Settling(position, recorded) ==
    IF pc = position /\ at = "DONE" THEN answer ELSE recorded

\* The secret the run holds: what the lookup answers until the step is recorded, and
\* slackSecretValue afterwards
SecretHeld ==
    IF pc = "VALIDATING" /\ at # "READY" /\ answer # Rejected THEN answer ELSE slackSecretValue

\* The records the handler may write: the event, the invocation context, the billing
\* requests and answers and the results computed from them: nothing of the secret
SecretFreeRecords ==
    {Log("Event received", [event |-> [type |-> eventType]]),
     Log("Lambda context", [context |-> LambdaContext]),
     Log("DateRange computed", [dateRange |-> Settling("SECRET_RESOLVED", dateRange)]),
     Log("TotalBilling fetched", [totalBilling |-> Settling("RANGE_COMPUTED", totalBilling)]),
     Log("TotalBilling:Command:Output(Shaped):", Settling("RANGE_COMPUTED", totalBilling)),
     Log("ServiceBilling fetched",
         [serviceBillings |-> Settling("TOTAL_FETCHED", detailBillings)]),
     Log("AccountBillings fetched",
         [accountBillings |-> Settling("TOTAL_FETCHED", detailBillings)]),
     Log("Error caught...", [none |-> TRUE]),
     Log("Error:", Rejected)}
    \cup {Log("TotalBilling:Command:Input:", TotalQueries[i].input) :
            i \in 1..Len(TotalQueries)}
    \cup {Log("ServiceBillings:Command:Input:", GroupedQueries[i].input) :
            i \in 1..Len(GroupedQueries)}
    \cup {Log("AccountBillings:Command:Input:", GroupedQueries[i].input) :
            i \in 1..Len(GroupedQueries)}
    \cup {Log("ServiceBillings:Command:Output(Shaped):",
              Array(ServiceBillingsOf(pages[p]))) :
            p \in {q \in 1..Len(pages) : eventType = "services" /\ OneResult(pages[q])}}
    \cup {Log("AccountBillings:Command:Output(Shaped):",
              Array(AccountBillingsOf(pages[p]))) :
            p \in {q \in 1..Len(pages) : eventType = "accounts" /\ OneResult(pages[q])}}

\* C18: every record of the log is one of the records of the event, the invocation
\* context, the billing requests, answers and results, and none carries the secret
\* the run holds, whole or in part.
C18_SecretNeverLogged ==
    \A i \in 1..Len(logs) :
        /\ logs[i] \in SecretFreeRecords
        /\ SecretHeld # undefined =>
            /\ logs[i].data # SecretHeld
            /\ logs[i].data # [slackSecretValue |-> SecretHeld]
            /\ logs[i].data # [token |-> SecretHeld.token]
            /\ logs[i].data # [channel |-> SecretHeld.channel]

\* With the secret resolved, step fetch-total-billing wrote its three records
C18_Witness ==
    /\ pc = "TOTAL_FETCHED"
    /\ slackSecretValue = [token |-> "xxxx-xxxxxxxxx-xxxx", channel |-> "example-channel"]
    /\ Len(logs) = 3
    /\ logs[3] = Log("TotalBilling fetched",
                     [totalBilling |-> [unit |-> "USD", amount |-> "1.23456"]])

-----------------------------------------------------------------------------
(* Properties: the schedule *)

\* C19: the schedule invokes the function once per day, at 09:01 UTC.
C19_TriggeredDailyAt0901UTC ==
    /\ \A i \in 1..Len(triggered) : triggered[i] % 1440 = 9 * 60 + 1
    /\ \A i \in 1..Len(triggered) : \A j \in 1..Len(triggered) :
            i # j => triggered[i] \div 1440 # triggered[j] \div 1440
    /\ clock >= 1440 => Len(triggered) >= clock \div 1440

-----------------------------------------------------------------------------
(* Properties: the order of the steps *)

StateOrder ==
    <<"VALIDATING", "SECRET_RESOLVED", "RANGE_COMPUTED", "TOTAL_FETCHED", "DETAIL_FETCHED",
      "NOTIFIED", "SUCCEEDED">>

\* C20: every transition of a run starts in a state that is neither SUCCEEDED nor
\* FAILED, and either stays in its state (a step in progress, a re-invocation), moves
\* to the next state of the order VALIDATING, SECRET_RESOLVED, RANGE_COMPUTED,
\* TOTAL_FETCHED, DETAIL_FETCHED, NOTIFIED, SUCCEEDED, or moves to FAILED.
C20_StatesInOrder ==
    [][/\ pc \notin {"SUCCEEDED", "FAILED"}
       /\ \/ pc' = pc
          \/ pc' = "FAILED"
          \/ \E k \in 1..(Len(StateOrder) - 1) :
                pc = StateOrder[k] /\ pc' = StateOrder[k + 1]]_vars

\* A run went through every state on its first invocation and succeeded
C20_Witness ==
    /\ pc = "SUCCEEDED"
    /\ invocation = 1
    /\ slackSecretValue # undefined
    /\ dateRange # undefined
    /\ totalData # undefined
    /\ pages # <<>>
    /\ SlackCalls # <<>>

-----------------------------------------------------------------------------
(* Properties: configuration errors *)

\* C21: a run whose secret name is absent or empty, or whose type is not "accounts" or
\* "services", never sends a request of any kind; a run whose secret was not resolved
\* or was resolved without a token or without a channel never sends a Cost Explorer
\* query or a chat post.
C21_ConfigurationErrorSendsNothing ==
    /\ (slackSecretName \in {Unset, ""} \/ eventType \notin {"accounts", "services"})
        => calls = <<>>
    /\ (\/ slackSecretValue = undefined
        \/ slackSecretValue.token \in {Unset, ""}
        \/ slackSecretValue.channel \in {Unset, ""})
        => \A i \in 1..Len(calls) : calls[i].api = "secrets"

\* A run whose secret has a channel and an empty token failed having sent the secret
\* lookup and nothing else
C21_Witness ==
    /\ pc = "FAILED"
    /\ error = SecretError
    /\ slackSecretValue = [token |-> "", channel |-> "example-channel"]
    /\ Len(calls) = 1
    /\ calls[1].api = "secrets"

-----------------------------------------------------------------------------
(* Properties: pagination *)

\* The response carries a token the fetch continues with
Continues(page) == OneResult(page) /\ page.NextPageToken \notin {Unset, ""}

\* C22: the requests of the execution of a grouped fetch that is going on or was the
\* last are one per answer, in order: the first carries no token, each later one
\* carries the token of the answer just before it and the range and the GroupBy of the
\* first; a later request is sent only after an answer with a token, one request is in
\* flight while the fetch goes on, and the fetch has ended only when the last answer
\* gives no token to go on with.
C22_PagesRequestedInSequence ==
    LET n == Len(pages)
        first == Len(GroupedQueries) - n
    IN  /\ first >= 0
        /\ \A p \in 1..n :
            /\ p < n => Continues(pages[p])
            /\ GroupedQueries[first + p].input.NextPageToken
                 = IF p = 1 THEN Unset ELSE pages[p - 1].NextPageToken
            /\ GroupedQueries[first + p].input.TimePeriod
                 = GroupedQueries[first + 1].input.TimePeriod
            /\ GroupedQueries[first + p].input.GroupBy
                 = GroupedQueries[first + 1].input.GroupBy
        /\ ((DetailDone \/ (pc = "TOTAL_FETCHED" /\ at = "DONE")) /\ n > 0) =>
                ~Continues(pages[n])
        /\ (pc = "TOTAL_FETCHED" /\ at = "SENT") => n = Len(frames) + 1

\* A service fetch of two pages has ended: its second request carried the token of
\* the first answer, and the second answer carried none
C22_Witness ==
    /\ pc = "DETAIL_FETCHED"
    /\ eventType = "services"
    /\ Len(pages) = 2
    /\ pages[1].NextPageToken = "page-2"
    /\ Len(GroupedQueries) = 2
    /\ GroupedQueries[1].input.NextPageToken = Unset
    /\ GroupedQueries[2].input.NextPageToken = "page-2"
    /\ OneResult(pages[2])

-----------------------------------------------------------------------------
(* Properties: the shape of the reporting period *)

\* C24: the range computed on any date has, for some month of some year, the 1st of
\* that month as its start and a day of that same month as its end; so the start is
\* not after the end.
C24_RangeWithinOneMonth ==
    RangeComputed
    => \E y \in {now.year - 1, now.year} : \E m \in 1..12 :
        \E d \in 1..MonthLength(y, m) :
            dateRange = [start |-> IsoDate(y, m, 1), end |-> IsoDate(y, m, d)]

\* The range computed on 2024-01-01 is December 2023, in the year before
C24_Witness ==
    /\ RangeComputed
    /\ now = [year |-> 2024, month |-> 0, date |-> 1]
    /\ dateRange = [start |-> "2023-12-01", end |-> "2023-12-31"]

-----------------------------------------------------------------------------
(* Properties: rows of the grouped result *)

RECURSIVE GroupRowsUpTo(_)
\* The number of group rows of the first p answers, an answer with one bucket counting
\* the rows of that bucket and any other answer none
GroupRowsUpTo(p) ==
    IF p = 0 THEN 0
    ELSE GroupRowsUpTo(p - 1)
         + (IF OneResult(pages[p]) THEN Len(pages[p].ResultsByTime[1].Groups) ELSE 0)

\* C26: in either mode a grouped result that is not undefined has as many rows as
\* the fetched pages have group rows, and a fetch whose one answer has one bucket
\* with no group row returns the empty sequence.
C26_OneRowPerGroupRow ==
    DetailDone =>
        /\ detailBillings # undefined =>
                Len(detailBillings.items) = GroupRowsUpTo(Len(pages))
        /\ (/\ Len(pages) = 1
            /\ OneResult(pages[1])
            /\ pages[1].ResultsByTime[1].Groups = <<>>) => detailBillings = Array(<<>>)

-----------------------------------------------------------------------------
(* Properties: the order of the checks *)

\* C27: a run whose type is missing or invalid fails with one of the two input
\* errors, whether its secret name is configured or not.
C27_InputCheckedBeforeEnvironment ==
    (pc # "VALIDATING" /\ eventType \notin {"accounts", "services"})
    => (pc = "FAILED" /\ error \in InputErrors)

-----------------------------------------------------------------------------
(* Properties: the range of a run *)

\* C25: the run has one range, the one recorded for step compute-date-range: every
\* Cost Explorer query sent so far (the total query and each page request of the
\* grouped query) and every root message posted so far carries its start and its end,
\* whatever the date has become when the run was invoked again.
C25_OneRangePerRun ==
    dateRange # undefined =>
        \A i \in 1..Len(calls) :
            /\ calls[i].api = "ce" =>
                (/\ calls[i].input.TimePeriod.Start = dateRange.start
                 /\ calls[i].input.TimePeriod.End = dateRange.end)
            /\ IsRoot(calls[i]) =>
                calls[i].input.text
                    = "AWS Cost Reports (" \o dateRange.start \o " - " \o dateRange.end \o ")"

\* A run started on 2023-02-23 and invoked again on 2023-02-24, inside its grouped
\* fetch, has posted the root message for 2023-02-01 to 2023-02-22
C25_Witness ==
    /\ pc = "SUCCEEDED"
    /\ invocation = 2
    /\ now = [year |-> 2023, month |-> 1, date |-> 24]
    /\ Len(GroupedQueries) = 2
    /\ GroupedQueries[2].input.NextPageToken = Unset
    /\ GroupedQueries[2].input.TimePeriod = [Start |-> "2023-02-01", End |-> "2023-02-22"]
    /\ \E i \in 1..Len(calls) :
        /\ IsRoot(calls[i])
        /\ calls[i].input.text = "AWS Cost Reports (2023-02-01 - 2023-02-22)"

-----------------------------------------------------------------------------
(* Properties: the payload of the schedule *)

\* C28: every payload the schedule invokes the function with passes the handler's
\* checks of its input, and carries the mode the construct was configured with:
\* "accounts" for CostGroupType.ACCOUNTS, "services" for CostGroupType.SERVICES
C28_TriggerPayloadAccepted ==
    triggered # <<>> =>
        /\ ValidationError(slackSecretName, eventType) = Unset
        /\ costGroupType = CostGroupType.ACCOUNTS => eventType = EventInputType.ACCOUNTS
        /\ costGroupType = CostGroupType.SERVICES => eventType = EventInputType.SERVICES
        /\ logs = EntryLogs(TargetInput(costGroupType).type)

C28_Witness ==
    /\ Len(triggered) = 2
    /\ costGroupType = CostGroupType.SERVICES
    /\ eventType = "services"

-----------------------------------------------------------------------------
(* Properties: the history of step post-slack-messages *)

\* The position in calls of the latest root post made before position i, 0 when none
RootBefore(i) ==
    IF \E j \in 1..(i - 1) : IsRoot(calls[j])
    THEN CHOOSE j \in 1..(i - 1) :
            IsRoot(calls[j]) /\ \A k \in (j + 1)..(i - 1) : ~IsRoot(calls[k])
    ELSE 0

\* The root posts answered ok = true
OkRoots == SelectSeq(calls, LAMBDA c : IsRoot(c) /\ Returned(c) /\ c.output.ok)

\* What holds of the messages posted so far: no more threaded posts than root posts
\* answered ok = true; a threaded post comes right after a root post answered ok = true
\* and names the ts answered to it as its parent; a root post follows another only in
\* a later invocation, one root post per invocation at most; and the step is recorded
\* complete only after a post that ends it
NotifyHistory ==
    /\ Len(SelectSeq(calls, IsThreaded)) <= Len(OkRoots)
    /\ \A i \in 1..Len(calls) :
        /\ IsThreaded(calls[i]) =>
            /\ RootBefore(i) = i - 1
            /\ RootBefore(i) > 0
            /\ Returned(calls[i - 1])
            /\ calls[i - 1].output.ok
            /\ calls[i].input.thread_ts = calls[i - 1].output.ts
        /\ (IsRoot(calls[i]) /\ RootBefore(i) > 0) => invocation > 1
    /\ Len(SelectSeq(calls, IsRoot)) <= invocation
    /\ Notified => (calls # <<>> /\ EndsNotification(calls[Len(calls)]))

\* C29: in every history of a run, re-invocations inside post-slack-messages
\* included, there are no more threaded posts than root posts answered ok = true; a
\* threaded post names as its parent the ts answered to the latest root post before
\* it, which the same execution of the step made; a root post is followed by another
\* root post only in a later invocation, the step not being recorded complete; and once
\* the step is recorded complete no message is posted.
C29_NotifyHistory ==
    /\ []NotifyHistory
    /\ [][Recorded("post-slack-messages") => calls' = calls]_vars

\* An invocation was interrupted with its threaded post in flight; the next one posted
\* the root message again and threaded the detail under the second root message
C29_Witness ==
    /\ Notified
    /\ Len(SlackCalls) = 4
    /\ IsRoot(SlackCalls[1]) /\ IsThreaded(SlackCalls[2])
    /\ IsRoot(SlackCalls[3]) /\ IsThreaded(SlackCalls[4])
    /\ SlackCalls[2].output = Pending
    /\ SlackCalls[2].input.thread_ts = SlackCalls[1].output.ts
    /\ SlackCalls[4].input.thread_ts = SlackCalls[3].output.ts
    /\ SlackCalls[4].input.thread_ts # SlackCalls[1].output.ts

-----------------------------------------------------------------------------
(* Properties: termination *)

\* C23: when every external call returns or fails and the page chain is finite, a
\* run that goes on being executed ends: from some point on it is SUCCEEDED for
\* good, or from some point on it is FAILED for good.
C23_RunEventuallyEnds ==
    <>[](pc = "SUCCEEDED") \/ <>[](pc = "FAILED")

\* A run that was interrupted and invoked again has fetched its pages and ended
C23_Witness ==
    /\ Finished
    /\ invocation = 2
    /\ Len(pages) = 2

-----------------------------------------------------------------------------
(* Properties: two runs at a time *)

\* What a run that has sent requests, with event.type type and holding secret, range,
\* total and detail, has sent when it is executed alone: the secret lookup, the total
\* query, the pages of its own mode's grouped query in sequence, then the root message
\* made of its range and total and, right after a root post answered ok = true, the
\* threaded message made of its fields under the ts of that answer
SentAsAlone(requests, type, secret, range, total, detail) ==
    /\ Len(requests) > 1 => range = getDateRange(now)
    /\ \A i \in 1..Len(requests) :
        /\ requests[i].api = "secrets" <=> i = 1
        /\ i = 1 => requests[i] = Call("secrets", slackSecretName)
        /\ requests[i].api = "ce" =>
            /\ requests[i].input.TimePeriod = TimePeriod(range)
            /\ i = 2 <=> "GroupBy" \notin DOMAIN requests[i].input
            /\ i = 2 => requests[i].input = TotalBillingInput(range)
            /\ i > 2 =>
                /\ requests[i].input.GroupBy[1].Key =
                        (IF type = EventInputType.ACCOUNTS
                         THEN "LINKED_ACCOUNT" ELSE "SERVICE")
                /\ requests[i].input.NextPageToken =
                        (IF i = 3 THEN Unset ELSE TokenAfter(i - 3))
        /\ IsRoot(requests[i]) =>
            /\ requests[i - 1].api = "ce"
            /\ requests[i].token = secret.token
            /\ requests[i].input = RootMessage(secret.channel, range, total)
        /\ IsThreaded(requests[i]) =>
            /\ i = Len(requests)
            /\ IsRoot(requests[i - 1])
            /\ Returned(requests[i - 1])
            /\ requests[i - 1].output.ok
            /\ requests[i].token = secret.token
            /\ requests[i].input =
                    ThreadMessage(secret.channel, requests[i - 1].output.ts, detail)

\* A run at position with failure message has ended as it does alone: SUCCEEDED after
\* the post that ends the notification, FAILED on its own incomplete secret or on its
\* own rejected lookup or post, and in no other way
EndedAsAlone(position, message, requests, secret) ==
    /\ position = "SUCCEEDED" => EndsNotification(requests[Len(requests)])
    /\ position = "FAILED" =>
        IF message = SecretError THEN Len(requests) = 1 /\ SecretIncomplete(secret)
        ELSE /\ message = RejectedMessage(requests[Len(requests)].api)
             /\ requests[Len(requests)].api \in {"secrets", "slack"}
             /\ requests[Len(requests)].api = "slack" =>
                    requests[Len(requests)].output = Rejected

\* No threaded message of threads is under a root message of roots
NotThreadedUnder(threads, roots) ==
    \A i \in 1..Len(threads) : \A k \in 1..Len(roots) :
        (IsThreaded(threads[i]) /\ IsRoot(roots[k]) /\ Returned(roots[k])
            /\ roots[k].output.ok)
        => threads[i].input.thread_ts # roots[k].output.ts

\* C30: when two runs, in the same mode or in different modes, interleave their
\* transitions in any order (requests in flight at the same time included), each one
\* sends the requests, posts the messages and ends with the result it has alone: each
\* queries with its own range and its own mode's dimension, each page once; posts one
\* root message made of its own range and total and then, under the ts answered to
\* that post, one threaded message made of its own fields; and succeeds, or fails only
\* on its own secret or its own rejected call.  No message of one run is threaded under
\* the root message of the other.
C30_RunsDoNotInterfere ==
    /\ SentAsAlone(calls, eventType, slackSecretValue, dateRange, totalBilling, fields)
    /\ EndedAsAlone(pc, error, calls, slackSecretValue)
    /\ SentAsAlone(other.calls, other.eventType, other.slackSecretValue, other.dateRange,
                   other.totalBilling, other.fields)
    /\ EndedAsAlone(other.pc, other.error, other.calls, other.slackSecretValue)
    /\ NotThreadedUnder(calls, other.calls)
    /\ NotThreadedUnder(other.calls, calls)

\* Two runs in different modes have both ended SUCCEEDED; their root posts were in
\* flight at the same time, the one of the first run sent after the one of the second
\* and answered before it, and each detail is threaded under its own root message
C30_Witness ==
    /\ pc = "SUCCEEDED" /\ other.pc = "SUCCEEDED"
    /\ eventType # other.eventType
    /\ Len(SlackCalls) = 2 /\ Len(OtherSlackCalls) = 2
    /\ OtherSlackCalls[1].output.ts = MessageTs(1)
    /\ SlackCalls[1].output.ts = MessageTs(2)
    /\ SlackCalls[2].output.ts = MessageTs(3)
    /\ OtherSlackCalls[2].output.ts = MessageTs(4)
    /\ OtherSlackCalls[2].input.thread_ts = MessageTs(1)
    /\ SlackCalls[2].input.thread_ts = MessageTs(2)

====
